---- MODULE Spec2Model ----
(***************************************************************************)
(* State-machine model of src/src/components/MatchPredictionModal.tsx:     *)
(* the MatchPredictionModal component (absence selection, prediction       *)
(* query) and the PlayerDetailsModal component (projection analyzer).      *)
(*                                                                         *)
(* A handler and the re-render it schedules are one step: React flushes    *)
(* the state updates of a discrete event before the next event is          *)
(* dispatched, so each handler closes over the state the previous step     *)
(* left.  The query layer (useQuery) is modelled as a cache of entries     *)
(* keyed by query key, one observer per useQuery call.                     *)
(*                                                                         *)
(* Text is a sequence of one-character strings; numbers shown to the user  *)
(* are integers in units of 1/Scale.                                       *)
(***************************************************************************)
EXTENDS Integers, Sequences, FiniteSets, TLC

VARIABLES
    \* ---- MatchPredictionModal: props
    open,                 \* prop open
    game,                 \* prop game (NoGame for null, or a TodayGame)
    \* ---- MatchPredictionModal: useState
    homeMissingPlayers,   \* Player[]
    awayMissingPlayers,   \* Player[]
    homeSearchQuery,
    awaySearchQuery,
    homePopoverOpen,
    awayPopoverOpen,
    failedLogos,          \* Set<string>
    \* ---- query layer of MatchPredictionModal
    rosterLoaded,         \* team codes whose ["team-roster", code] query has data
    rosterRequests,       \* team codes getTeamRoster has been called with
    predCache,            \* query key -> entry of the "match-prediction" queries
    predInflight,         \* predictMatch calls the network has not answered yet
    nReq,                 \* number of predictMatch calls issued so far
    lastRefresh,          \* the request the latest Refresh click resolves to
    closeCalls,           \* number of onOpenChange(false) calls made by Close
    queryMajor,           \* major version of @tanstack/react-query installed
    remembered,           \* an earlier render's key inputs and key (observer of C4)
    \* ---- PlayerDetailsModal
    isOpen,               \* prop isOpen
    selectedStat,
    bookmakerLine,
    calculatorOpen,
    calcCache,            \* query key -> entry of the "calculator-analysis" queries
    calcInflight,         \* getCalculatorAnalysis calls not answered yet
    nCalcReq,             \* number of getCalculatorAnalysis calls issued so far
    historyData,          \* data of the "player-details-history" query
    historyFetching,      \* a getPlayerDetailsHistory call is not answered yet
    historyError,         \* the last getPlayerDetailsHistory call failed
    \* ---- Win Probability Bar (pure rendering of one prediction)
    winProbabilityHome,   \* prediction.win_probability_home as received
    wpRendered,           \* what the bar shows for it
    \* ---- confidence badge (pure rendering of one confidence label)
    level,                \* prediction.confidence_level as received
    confidenceBadge,      \* class of the badge rendered for it
    \* ---- recommendation panel (pure rendering of one calculator result)
    advice,               \* calculatorResult.advice
    colorCode,            \* calculatorResult.color_code
    recommendationColor   \* class of the panel rendered for them

matchVars  == <<open, game, homeMissingPlayers, awayMissingPlayers,
                homeSearchQuery, awaySearchQuery, homePopoverOpen,
                awayPopoverOpen, failedLogos, rosterLoaded, rosterRequests,
                predCache, predInflight, nReq, lastRefresh, closeCalls,
                   queryMajor,
                remembered>>
histVars   == <<historyData, historyFetching, historyError>>
playerVars == <<isOpen, selectedStat, bookmakerLine, calculatorOpen,
                calcCache, calcInflight, nCalcReq, histVars>>
wpVars     == <<winProbabilityHome, wpRendered>>
confVars   == <<level, confidenceBadge>>
recVars    == <<advice, colorCode, recommendationColor>>
viewVars   == <<confVars, recVars>>
vars       == <<matchVars, playerVars, wpVars, viewVars>>

----------------------------------------------------------------------------
(* Bounds of the model                                                     *)

\* predictMatch calls explored per behaviour
MaxReq == 3
\* distinct prediction keys (each fetched once) explored per behaviour of the
\* absence selection
MaxKeys == 5
\* getCalculatorAnalysis calls explored per behaviour
MaxCalcReq == 2
\* tenths of a percent explored below 0% and above 100% as raw win probability
WinProbSpan == 200
\* predictMatch calls explored per behaviour of the modal's lifecycle
MaxLifeReq == 3
\* characters of a label or colour code whose letter case is varied
MaxTextLen == 12
\* onOpenChange(false) calls explored per behaviour
MaxCloseCalls == 1
\* predictMatch calls explored per behaviour of the modal's body, of its
\* operations side by side and of its two sides
MaxDisplayReq == 2

----------------------------------------------------------------------------
(* Values                                                                  *)

\* game = null: the parent has no game selected
NoGame == [gameId |-> "", homeTeam |-> "", awayTeam |-> "",
           homeTeamId |-> "", awayTeamId |-> ""]

\* One scheduled game, as the parent passes it (TodayGame).
Game1 == [gameId |-> "g1", homeTeam |-> "Lakers", awayTeam |-> "Celtics",
          homeTeamId |-> "1610612747", awayTeamId |-> "1610612738"]
Games == {Game1}

\* The return game: the teams of Game1 with the sides swapped.
Game2 == [gameId |-> "g2", homeTeam |-> "Celtics", awayTeam |-> "Lakers",
          homeTeamId |-> "1610612738", awayTeamId |-> "1610612747"]
\* A game whose away team has no entry in the team mapping and no team id.
Game3 == [gameId |-> "g3", homeTeam |-> "Lakers", awayTeam |-> "All-Stars",
          homeTeamId |-> "1610612747", awayTeamId |-> ""]
\* Every value of the prop game: null and the games of the schedule.
GameProps == {NoGame, Game1, Game2, Game3}

\* getTeamCode of "@/lib/teamMapping": team name -> team code.
getTeamCode(name) ==
    CASE name = "Lakers"  -> "LAL"
      [] name = "Celtics" -> "BOS"
      [] OTHER -> ""

\* nbaApi.getTeamRoster: the roster the API answers for a team code.
getTeamRoster(code) ==
    CASE code = "LAL" -> << [id |-> 1, full_name |-> <<"A", "l">>],
                            [id |-> 2, full_name |-> <<"B", "o">>] >>
      [] code = "BOS" -> << [id |-> 3, full_name |-> <<"a", "b">>] >>
      [] OTHER -> << >>

\* Texts typed into the roster search boxes.
SearchTexts == { << >>, <<"b">> }

----------------------------------------------------------------------------
(* Array helpers, as the JavaScript the component uses                     *)

\* players.map((p) => p.id)
Ids(players) == [i \in 1..Len(players) |-> players[i].id]

\* Join as it would be over the sorted ids (mutant of Join)
RECURSIVE JoinSorted(_)
JoinSorted(ids) ==
    IF ids = << >> THEN ""
    ELSE LET m    == CHOOSE i \in 1..Len(ids) :
                         \A j \in 1..Len(ids) : ids[i] <= ids[j]
             rest == [k \in 1..(Len(ids) - 1) |->
                         IF k < m THEN ids[k] ELSE ids[k + 1]]
         IN  IF rest = << >> THEN ToString(ids[m])
             ELSE ToString(ids[m]) \o "," \o JoinSorted(rest)

\* ids.join(","): the ids in array order, separated by commas
RECURSIVE Join(_)
Join(ids) ==
    IF ids = << >> THEN ""
    ELSE IF Len(ids) = 1 THEN ToString(ids[1])
         ELSE ToString(ids[1]) \o "," \o Join(Tail(ids))

\* arr.find((p) => p.id === id) !== undefined
HasId(players, id) == \E i \in 1..Len(players) : players[i].id = id

IdSet(players) == {players[i].id : i \in 1..Len(players)}

----------------------------------------------------------------------------
(* MatchPredictionModal: values derived on every render                    *)

HomeCode(g) == IF g # NoGame THEN getTeamCode(g.homeTeam) ELSE ""
AwayCode(g) == IF g # NoGame THEN getTeamCode(g.awayTeam) ELSE ""

homeTeamId == HomeCode(game)
awayTeamId == AwayCode(game)

\* useQuery(["team-roster", code]) with data defaulting to []
RosterOf(code) == IF code \in rosterLoaded THEN getTeamRoster(code) ELSE << >>

\* enabled of a team-roster query without the team code test (mutant of
\* RosterEnabled)
RosterEnabledAlways(code) == TRUE

\* enabled: !!homeTeamId / !!awayTeamId
RosterEnabled(code) == code # ""

\* The team-roster observers of a render with game g2: each enabled query
\* that has no data and no call in flight calls getTeamRoster(code).
RosterFetches(g2) ==
    {code \in {HomeCode(g2), AwayCode(g2)} :
        RosterEnabled(code) /\ code \notin rosterRequests}
homeRoster == RosterOf(homeTeamId)
awayRoster == RosterOf(awayTeamId)

PlayersOf(roster) == {roster[i] : i \in 1..Len(roster)}
PlayerIds == IdSet(getTeamRoster("LAL")) \cup IdSet(getTeamRoster("BOS"))

\* queryKey with the home search text as one more component (mutant of
\* PredKey)
PredKeyWithSearch(g, home, away) ==
    <<"match-prediction", HomeCode(g), AwayCode(g),
      Join(Ids(home)), Join(Ids(away)), homeSearchQuery>>

\* queryKey of the match-prediction query
PredKey(g, home, away) ==
    <<"match-prediction", HomeCode(g), AwayCode(g),
      Join(Ids(home)), Join(Ids(away))>>

\* the arguments queryFn passes to nbaApi.predictMatch
PredArgs(g, home, away) ==
    [homeTeamId |-> HomeCode(g), awayTeamId |-> AwayCode(g),
     homeIds |-> Ids(home), awayIds |-> Ids(away)]

\* enabled of the match-prediction query
PredEnabled(o, g) == o /\ HomeCode(g) # "" /\ AwayCode(g) # ""

currentKey == PredKey(game, homeMissingPlayers, awayMissingPlayers)

----------------------------------------------------------------------------
(* The query cache behind useQuery                                         *)

\* data === undefined
NoData == [args |-> [homeTeamId |-> "", awayTeamId |-> "",
                     homeIds |-> << >>, awayIds |-> << >>],
           req |-> 0]

\* a query the cache has never fetched
EmptyEntry == [data |-> NoData, active |-> 0, error |-> FALSE]

EntryOf(cache, key) == IF key \in DOMAIN cache THEN cache[key] ELSE EmptyEntry

\* Query.fetch: a fetch already running is shared, unless the query has data
\* and the caller asked for cancelRefetch, which abandons the running fetch
\* (its answer is ignored) and starts another.
StartFetch(q, key, args, cancelRefetch) ==
    LET e == EntryOf(q.cache, key) IN
    IF e.active # 0 /\ ~(e.data # NoData /\ cancelRefetch)
    THEN q
    ELSE [cache    |-> (key :> [e EXCEPT !.active = q.n + 1]) @@ q.cache,
          inflight |-> q.inflight \cup
                         {[key |-> key, req |-> q.n + 1, args |-> args]},
          n        |-> q.n + 1]

\* SettleFetch committing to whatever key is rendered when the answer
\* arrives (mutant of SettleFetch)
SettleFetchToRenderedKey(cache, r, ok) ==
    LET k == PredKey(game, homeMissingPlayers, awayMissingPlayers)
        e == EntryOf(cache, k)
    IN  IF ok
        THEN (k :> [data   |-> [args |-> r.args, req |-> r.req],
                    active |-> 0, error |-> FALSE]) @@ cache
        ELSE (k :> [e EXCEPT !.active = 0, !.error = TRUE]) @@ cache

\* SettleFetch committing the answer of an abandoned fetch too (mutant of
\* SettleFetch)
SettleFetchAbandonedToo(cache, r, ok) ==
    LET e == EntryOf(cache, r.key) IN
    IF ok
    THEN (r.key :> [data   |-> [args |-> r.args, req |-> r.req],
                    active |-> IF e.active = r.req THEN 0 ELSE e.active,
                    error  |-> FALSE]) @@ cache
    ELSE (r.key :> [e EXCEPT !.active = IF e.active = r.req THEN 0 ELSE @,
                             !.error = TRUE]) @@ cache

\* A fetch that settles is committed to the entry of its own key, and only
\* while it is still that entry's running fetch.
SettleFetch(cache, r, ok) ==
    LET e == EntryOf(cache, r.key) IN
    IF e.active # r.req THEN cache
    ELSE IF ok
         THEN (r.key :> [data   |-> [args |-> r.args, req |-> r.req],
                         active |-> 0, error |-> FALSE]) @@ cache
         ELSE (r.key :> [e EXCEPT !.active = 0, !.error = TRUE]) @@ cache

\* The observer after a render with props (o2, g2) and absence lists
\* (home2, away2): when the query is enabled and its key is new to the
\* observer (or it has just become enabled), a query without data is
\* fetched, and one with data is refetched when it is stale.
ObserverUpdate(q, o2, g2, home2, away2, stale) ==
    LET oldKey == currentKey
        newKey == PredKey(g2, home2, away2)
        e      == EntryOf(q.cache, newKey)
    IN  IF /\ PredEnabled(o2, g2)
           /\ (newKey # oldKey \/ ~PredEnabled(open, game))
           /\ (e.data = NoData \/ stale)
        THEN StartFetch(q, newKey, PredArgs(g2, home2, away2), FALSE)
        ELSE q

PredQuery == [cache |-> predCache, inflight |-> predInflight, n |-> nReq]

QueryStep(q) ==
    /\ predCache' = q.cache
    /\ predInflight' = q.inflight
    /\ nReq' = q.n

\* the re-render that follows a change of props or of the absence lists
Rerender(o2, g2, home2, away2) ==
    \E stale \in BOOLEAN :
        QueryStep(ObserverUpdate(PredQuery, o2, g2, home2, away2, stale))

\* data of the match-prediction query for the rendered key
prediction == EntryOf(predCache, currentKey).data

----------------------------------------------------------------------------
(* MatchPredictionModal: initial state                                     *)

NoRefresh   == [key |-> << >>, req |-> 0]
NotRemembered == [homeTeamId |-> "", awayTeamId |-> "", homeIds |-> << >>,
                  awayIds |-> << >>, key |-> << >>]

\* The major versions of @tanstack/react-query whose useQuery takes the
\* options object written here.
QueryMajors == {4, 5}

\* the state after the first render, with the library at the given major
MatchInitOf(major) ==
    /\ queryMajor = major
    /\ open = FALSE
    /\ game = NoGame
    /\ homeMissingPlayers = << >>
    /\ awayMissingPlayers = << >>
    /\ homeSearchQuery = << >>
    /\ awaySearchQuery = << >>
    /\ homePopoverOpen = FALSE
    /\ awayPopoverOpen = FALSE
    /\ failedLogos = {}
    /\ rosterLoaded = {}
    /\ rosterRequests = {}
    /\ predCache = << >>
    /\ predInflight = {}
    /\ nReq = 0
    /\ lastRefresh = NoRefresh
    /\ closeCalls = 0
    /\ remembered = NotRemembered

MatchInit == MatchInitOf(5)

----------------------------------------------------------------------------
(* MatchPredictionModal: operations                                        *)

\* The parent renders the modal with new props.
ParentRender(o2, g2) ==
    /\ <<o2, g2>> # <<open, game>>
    /\ open' = o2
    /\ game' = g2
    /\ rosterRequests' = rosterRequests \cup RosterFetches(g2)
    /\ Rerender(o2, g2, homeMissingPlayers, awayMissingPlayers)
    /\ UNCHANGED <<homeMissingPlayers, awayMissingPlayers, homeSearchQuery,
                   awaySearchQuery, homePopoverOpen, awayPopoverOpen,
                   failedLogos, rosterLoaded, lastRefresh, closeCalls,
                   queryMajor,
                   remembered,
                   playerVars, wpVars, viewVars>>

\* A getTeamRoster call is answered: its team-roster query gets its data.
RosterResolve(code) ==
    /\ code \in rosterRequests
    /\ code \notin rosterLoaded
    /\ rosterLoaded' = rosterLoaded \cup {code}
    /\ UNCHANGED <<open, game, homeMissingPlayers, awayMissingPlayers,
                   homeSearchQuery, awaySearchQuery, homePopoverOpen,
                   awayPopoverOpen, failedLogos, rosterRequests, predCache,
                   predInflight, nReq, lastRefresh, closeCalls,
                   queryMajor, remembered,
                   playerVars, wpVars, viewVars>>

\* addMissingPlayer putting the player first (mutant of addMissingPlayer)
addMissingPlayerFirst(missingPlayers, player) ==
    IF ~HasId(missingPlayers, player.id)
    THEN <<player>> \o missingPlayers
    ELSE missingPlayers

\* addMissingPlayer without the find() check (mutant of addMissingPlayer)
addMissingPlayerUnchecked(missingPlayers, player) ==
    Append(missingPlayers, player)

\* the list add*MissingPlayer leaves in state, given the list it closed over
addMissingPlayer(missingPlayers, player) ==
    IF ~HasId(missingPlayers, player.id)
    THEN Append(missingPlayers, player)
    ELSE missingPlayers

\* removeMissingPlayer dropping the last entry when the id is not found
\* (mutant of removeMissingPlayer: splice(findIndex(...), 1))
removeMissingPlayerSplice(missingPlayers, playerId) ==
    IF HasId(missingPlayers, playerId)
    THEN SelectSeq(missingPlayers, LAMBDA p : p.id # playerId)
    ELSE SubSeq(missingPlayers, 1, Len(missingPlayers) - 1)

\* the list remove*MissingPlayer sets, given the list it closed over
removeMissingPlayer(missingPlayers, playerId) ==
    SelectSeq(missingPlayers, LAMBDA p : p.id # playerId)

\* An add or remove event of the home side: the player selected in the
\* popover, or the player whose badge button is clicked.
HomeEvents ==
    [kind : {"add", "remove"}, player : PlayersOf(getTeamRoster("LAL"))]

\* the handler of the event calls setHomeMissingPlayers: remove always does,
\* add only for a player it does not find in the list it closed over
SetsMissingPlayers(missingPlayers, e) ==
    e.kind = "remove" \/ ~HasId(missingPlayers, e.player.id)

\* the list the handler of the event leaves in state, given the list it
\* closed over
HandlerList(missingPlayers, e) ==
    IF e.kind = "add" THEN addMissingPlayer(missingPlayers, e.player)
    ELSE removeMissingPlayer(missingPlayers, e.player.id)

\* Two home events handled before the component renders again.  Both
\* handlers are the callbacks of the same render and closed over its
\* homeMissingPlayers; each setHomeMissingPlayers call passes a list (not an
\* updater), so the list of the last call is the state of the next render.
HomeEventsOnOneRender(e1, e2) ==
    /\ open
    /\ homeMissingPlayers' =
          IF SetsMissingPlayers(homeMissingPlayers, e2)
          THEN HandlerList(homeMissingPlayers, e2)
          ELSE HandlerList(homeMissingPlayers, e1)
    /\ IF e1.kind = "add" \/ e2.kind = "add"
       THEN homeSearchQuery' = << >> /\ homePopoverOpen' = FALSE
       ELSE UNCHANGED <<homeSearchQuery, homePopoverOpen>>
    /\ Rerender(open, game, homeMissingPlayers', awayMissingPlayers)
    /\ UNCHANGED <<open, game, awayMissingPlayers, awaySearchQuery,
                   awayPopoverOpen, failedLogos, rosterLoaded, rosterRequests,
                   lastRefresh, closeCalls, queryMajor, remembered,
                   playerVars, wpVars, viewVars>>

\* addHomeMissingPlayer clearing the away search box, as pasted from
\* addAwayMissingPlayer (mutant of addHomeMissingPlayer)
addHomeMissingPlayerPasted(player) ==
    /\ open
    /\ homeMissingPlayers' = addMissingPlayer(homeMissingPlayers, player)
    /\ awaySearchQuery' = << >>
    /\ homePopoverOpen' = FALSE
    /\ Rerender(open, game, homeMissingPlayers', awayMissingPlayers)
    /\ UNCHANGED <<open, game, awayMissingPlayers, homeSearchQuery,
                   awayPopoverOpen, failedLogos, rosterLoaded, rosterRequests,
                   lastRefresh, closeCalls, queryMajor, remembered,
                   playerVars, wpVars, viewVars>>

addHomeMissingPlayer(player) ==
    /\ open
    /\ homeMissingPlayers' = addMissingPlayer(homeMissingPlayers, player)
    /\ homeSearchQuery' = << >>
    /\ homePopoverOpen' = FALSE
    /\ Rerender(open, game, homeMissingPlayers', awayMissingPlayers)
    /\ UNCHANGED <<open, game, awayMissingPlayers, awaySearchQuery,
                   awayPopoverOpen, failedLogos, rosterLoaded, rosterRequests,
                   lastRefresh,
                   closeCalls,
                   queryMajor, remembered,
                   playerVars, wpVars, viewVars>>

addAwayMissingPlayer(player) ==
    /\ open
    /\ awayMissingPlayers' = addMissingPlayer(awayMissingPlayers, player)
    /\ awaySearchQuery' = << >>
    /\ awayPopoverOpen' = FALSE
    /\ Rerender(open, game, homeMissingPlayers, awayMissingPlayers')
    /\ UNCHANGED <<open, game, homeMissingPlayers, homeSearchQuery,
                   homePopoverOpen, failedLogos, rosterLoaded, rosterRequests,
                   lastRefresh,
                   closeCalls,
                   queryMajor, remembered,
                   playerVars, wpVars, viewVars>>

removeHomeMissingPlayer(playerId) ==
    /\ open
    /\ homeMissingPlayers' = removeMissingPlayer(homeMissingPlayers, playerId)
    /\ Rerender(open, game, homeMissingPlayers', awayMissingPlayers)
    /\ UNCHANGED <<open, game, awayMissingPlayers, homeSearchQuery,
                   awaySearchQuery, homePopoverOpen, awayPopoverOpen,
                   failedLogos, rosterLoaded, rosterRequests,
                   lastRefresh, closeCalls,
                   queryMajor,
                   remembered,
                   playerVars, wpVars, viewVars>>

removeAwayMissingPlayer(playerId) ==
    /\ open
    /\ awayMissingPlayers' = removeMissingPlayer(awayMissingPlayers, playerId)
    /\ Rerender(open, game, homeMissingPlayers, awayMissingPlayers')
    /\ UNCHANGED <<open, game, homeMissingPlayers, homeSearchQuery,
                   awaySearchQuery, homePopoverOpen, awayPopoverOpen,
                   failedLogos, rosterLoaded, rosterRequests,
                   lastRefresh, closeCalls,
                   queryMajor,
                   remembered,
                   playerVars, wpVars, viewVars>>

\* onChange of the home search box
setHomeSearchQuery(text) ==
    /\ open
    /\ text # homeSearchQuery
    /\ homeSearchQuery' = text
    /\ UNCHANGED <<open, game, homeMissingPlayers, awayMissingPlayers,
                   awaySearchQuery, homePopoverOpen, awayPopoverOpen,
                   failedLogos, rosterLoaded, rosterRequests,
                   predCache, predInflight, nReq,
                   lastRefresh, closeCalls,
                   queryMajor, remembered,
                   playerVars, wpVars, viewVars>>

setAwaySearchQuery(text) ==
    /\ open
    /\ text # awaySearchQuery
    /\ awaySearchQuery' = text
    /\ UNCHANGED <<open, game, homeMissingPlayers, awayMissingPlayers,
                   homeSearchQuery, homePopoverOpen, awayPopoverOpen,
                   failedLogos, rosterLoaded, rosterRequests,
                   predCache, predInflight, nReq,
                   lastRefresh, closeCalls,
                   queryMajor, remembered,
                   playerVars, wpVars, viewVars>>

\* onOpenChange of the home popover
setHomePopoverOpen(b) ==
    /\ open
    /\ b # homePopoverOpen
    /\ homePopoverOpen' = b
    /\ UNCHANGED <<open, game, homeMissingPlayers, awayMissingPlayers,
                   homeSearchQuery, awaySearchQuery, awayPopoverOpen,
                   failedLogos, rosterLoaded, rosterRequests,
                   predCache, predInflight, nReq,
                   lastRefresh, closeCalls,
                   queryMajor, remembered,
                   playerVars, wpVars, viewVars>>

setAwayPopoverOpen(b) ==
    /\ open
    /\ b # awayPopoverOpen
    /\ awayPopoverOpen' = b
    /\ UNCHANGED <<open, game, homeMissingPlayers, awayMissingPlayers,
                   homeSearchQuery, awaySearchQuery, homePopoverOpen,
                   failedLogos, rosterLoaded, rosterRequests,
                   predCache, predInflight, nReq,
                   lastRefresh, closeCalls,
                   queryMajor, remembered,
                   playerVars, wpVars, viewVars>>

\* Refresh button: refetch() of the match-prediction query.  refetch does not
\* look at enabled, and asks for cancelRefetch.
Refresh ==
    /\ open
    /\ LET q == StartFetch(PredQuery, currentKey,
                           PredArgs(game, homeMissingPlayers,
                                    awayMissingPlayers), TRUE)
       IN /\ QueryStep(q)
          /\ lastRefresh' = [key |-> currentKey,
                             req |-> q.cache[currentKey].active]
    /\ UNCHANGED <<open, game, homeMissingPlayers, awayMissingPlayers,
                   homeSearchQuery, awaySearchQuery, homePopoverOpen,
                   awayPopoverOpen, failedLogos, rosterLoaded, rosterRequests,
                   closeCalls,
                   queryMajor,
                   remembered,
                   playerVars, wpVars, viewVars>>

\* predictMatch answers request r
FetchResolve(r) ==
    /\ r \in predInflight
    /\ predInflight' = predInflight \ {r}
    /\ predCache' = SettleFetch(predCache, r, TRUE)
    /\ UNCHANGED <<open, game, homeMissingPlayers, awayMissingPlayers,
                   homeSearchQuery, awaySearchQuery, homePopoverOpen,
                   awayPopoverOpen, failedLogos, rosterLoaded, rosterRequests,
                   nReq,
                   lastRefresh, closeCalls,
                   queryMajor, remembered,
                   playerVars, wpVars, viewVars>>

\* predictMatch fails for request r (after the query layer's retries)
FetchReject(r) ==
    /\ r \in predInflight
    /\ predInflight' = predInflight \ {r}
    /\ predCache' = SettleFetch(predCache, r, FALSE)
    /\ UNCHANGED <<open, game, homeMissingPlayers, awayMissingPlayers,
                   homeSearchQuery, awaySearchQuery, homePopoverOpen,
                   awayPopoverOpen, failedLogos, rosterLoaded, rosterRequests,
                   nReq,
                   lastRefresh, closeCalls,
                   queryMajor, remembered,
                   playerVars, wpVars, viewVars>>

\* Close button with a reset of the home absences added to it (mutant of
\* Close)
CloseAndReset ==
    /\ open
    /\ closeCalls' = closeCalls + 1
    /\ homeMissingPlayers' = << >>
    /\ UNCHANGED <<open, game, awayMissingPlayers,
                   homeSearchQuery, awaySearchQuery, homePopoverOpen,
                   awayPopoverOpen, failedLogos, rosterLoaded, rosterRequests,
                   predCache, predInflight, nReq, lastRefresh,
                   queryMajor, remembered,
                   playerVars, wpVars, viewVars>>

\* Close button: onOpenChange(false).  The props change only when the parent
\* renders the modal again (ParentRender).
Close ==
    /\ open
    /\ closeCalls' = closeCalls + 1
    /\ UNCHANGED <<open, game, homeMissingPlayers, awayMissingPlayers,
                   homeSearchQuery, awaySearchQuery, homePopoverOpen,
                   awayPopoverOpen, failedLogos, rosterLoaded, rosterRequests,
                   predCache, predInflight, nReq, lastRefresh,
                   queryMajor, remembered,
                   playerVars, wpVars, viewVars>>

\* isLoading with isFetching in its place: a fetch is running, with or
\* without data (mutant of isLoading)
isFetching == EntryOf(predCache, currentKey).active # 0

\* isLoading of the match-prediction query.  Version 5: a first fetch is
\* running (isFetching && isPending).  Version 4: the status is "loading",
\* which a query without data has until a fetch fails, a disabled query that
\* never fetched included.
isLoading ==
    LET e == EntryOf(predCache, currentKey) IN
    /\ e.data = NoData
    /\ IF queryMajor = 4 THEN e.active # 0 \/ ~e.error ELSE e.active # 0

\* The body of the match modal: isLoading ? spinner : prediction ? content :
\* "Data unavailable"
MatchModalBody ==
    IF isLoading THEN "loading"
    ELSE IF prediction # NoData THEN "content" ELSE "unavailable"

\* The prediction card is rendered: the dialog is open and the query of the
\* rendered key has data (isLoading is false whenever it has).
PredictionShown == open /\ MatchModalBody = "content"

\* `home-${game.gameId}` / `away-${game.gameId}`
HomeLogoId(g) == "home-" \o g.gameId
AwayLogoId(g) == "away-" \o g.gameId

\* The logo of a side: the image, or the team name as text.
\* game?.homeTeamId && !failedLogos.has(`home-${game.gameId}`) ? <img> : <div>
LogoRender(teamId, logoId, failed) ==
    IF teamId # "" /\ logoId \notin failed THEN "img" ELSE "text"

HomeLogo == LogoRender(game.homeTeamId, HomeLogoId(game), failedLogos)
AwayLogo == LogoRender(game.awayTeamId, AwayLogoId(game), failedLogos)

\* The images the prediction card is showing, by logo id.
LogoImages ==
    IF ~PredictionShown THEN {}
    ELSE {id \in {HomeLogoId(game)} : HomeLogo = "img"}
           \cup {id \in {AwayLogoId(game)} : AwayLogo = "img"}

\* a failure set that keeps the latest id only (mutant of addFailedLogo)
addFailedLogoOnly(prev, teamId) == {teamId}

\* new Set([...prev, teamId])
addFailedLogo(prev, teamId) == prev \cup {teamId}

\* onError of a logo image
handleLogoError(teamId) ==
    /\ teamId \in LogoImages
    /\ failedLogos' = addFailedLogo(failedLogos, teamId)
    /\ UNCHANGED <<open, game, homeMissingPlayers, awayMissingPlayers,
                   homeSearchQuery, awaySearchQuery, homePopoverOpen,
                   awayPopoverOpen, rosterLoaded, rosterRequests, predCache,
                   predInflight, nReq, lastRefresh, closeCalls,
                   queryMajor, remembered,
                   playerVars, wpVars, viewVars>>

----------------------------------------------------------------------------
(* PlayerDetailsModal: text and numbers                                    *)

Digits == {"0", "1", "2", "3", "4", "5", "6", "7", "8", "9"}

DigitValue(c) ==
    CASE c = "0" -> 0 [] c = "1" -> 1 [] c = "2" -> 2 [] c = "3" -> 3
      [] c = "4" -> 4 [] c = "5" -> 5 [] c = "6" -> 6 [] c = "7" -> 7
      [] c = "8" -> 8 [] c = "9" -> 9

\* the longest run of digits at the start of text
RECURSIVE DigitRun(_)
DigitRun(text) ==
    IF text = << >> \/ Head(text) \notin Digits THEN << >>
    ELSE <<Head(text)>> \o DigitRun(Tail(text))

\* the value of a run of digits, read after the digits already worth acc
RECURSIVE DigitsValue(_, _)
DigitsValue(acc, digits) ==
    IF digits = << >> THEN acc
    ELSE DigitsValue(acc * 10 + DigitValue(Head(digits)), Tail(digits))

\* A number is nan, or m / 10^e.
NaN == [nan |-> TRUE, m |-> 0, e |-> 0]
Number(m, e) == [nan |-> FALSE, m |-> m, e |-> e]

\* parseFloat(text) for text without exponent part: an optional sign, digits,
\* an optional "." and digits; the longest such prefix is read, and a text
\* that starts with none is NaN.
parseFloat(text) ==
    LET signed   == text # << >> /\ Head(text) \in {"-", "+"}
        negative == signed /\ Head(text) = "-"
        body     == IF signed THEN Tail(text) ELSE text
        int      == DigitRun(body)
        afterInt == SubSeq(body, Len(int) + 1, Len(body))
        frac     == IF afterInt # << >> /\ Head(afterInt) = "."
                    THEN DigitRun(Tail(afterInt)) ELSE << >>
        m        == DigitsValue(DigitsValue(0, int), frac)
    IN  IF int = << >> /\ frac = << >> THEN NaN
        ELSE Number(IF negative THEN 0 - m ELSE m, Len(frac))

\* x > 0 and x <= 0 of JavaScript: both are false of NaN
GreaterThanZero(x) == ~x.nan /\ x.m > 0
AtMostZero(x)      == ~x.nan /\ x.m <= 0

\* e.target.value of <Input type="number">: the text when it is a valid
\* floating-point number (an optional "-", then digits, or digits "." digits,
\* or "." digits), and "" otherwise.
InputNumberValue(text) ==
    LET body     == IF text # << >> /\ Head(text) = "-" THEN Tail(text)
                    ELSE text
        int      == DigitRun(body)
        afterInt == SubSeq(body, Len(int) + 1, Len(body))
        frac     == IF afterInt # << >> /\ Head(afterInt) = "."
                    THEN DigitRun(Tail(afterInt)) ELSE << >>
        valid    == \/ int # << >> /\ afterInt = << >>
                    \/ /\ afterInt # << >> /\ Head(afterInt) = "."
                       /\ frac # << >>
                       /\ Len(afterInt) = Len(frac) + 1
    IN  IF valid THEN text ELSE << >>

\* Texts typed into the Target Line box.
LineTexts == { << >>, <<"a", "b", "c">>, <<"-", "5">>, <<"0">>,
               <<"2", "2", ".", "5">>, <<"2", "5">> }

----------------------------------------------------------------------------
(* PlayerDetailsModal: props and derived values                            *)

StatCategory == {"PTS", "REB", "AST", "PRA"}

\* prop player (PlayerFullPrediction); stats in tenths, REB not predicted
playerProp == [player_id |-> 7,
               predicted_stats |-> [PTS |-> 240, REB |-> 0, AST |-> 65],
               advanced_metrics_projected |-> [PRA |-> 305]]

getProjectionValue(pl, stat) ==
    IF stat = "PRA" THEN pl.advanced_metrics_projected.PRA
    ELSE pl.predicted_stats[stat]

projection == getProjectionValue(playerProp, selectedStat)

RECURSIVE Pow10(_)
Pow10(n) == IF n = 0 THEN 1 ELSE 10 * Pow10(n - 1)

\* a - b of two numbers; NaN when either is
Minus(a, b) ==
    IF a.nan \/ b.nan THEN NaN
    ELSE LET e == IF a.e > b.e THEN a.e ELSE b.e
         IN  Number(a.m * Pow10(e - a.e) - b.m * Pow10(e - b.e), e)

DigitChar(d) == CHOOSE c \in Digits : DigitValue(c) = d

RECURSIVE DigitChars(_)
DigitChars(n) ==
    IF n < 10 THEN <<DigitChar(n)>>
    ELSE DigitChars(n \div 10) \o <<DigitChar(n % 10)>>

\* Number.prototype.toFixed(1): "NaN" for NaN; otherwise a "-" for x < 0,
\* then the tenths nearest to |x| (the larger of two equally near ones) with
\* one digit after the point.  The differences explored here are either no
\* tie or exact in binary, where the decimal and the binary tie agree.
toFixed1(x) ==
    IF x.nan THEN <<"N", "a", "N">>
    ELSE LET mag    == IF x.m < 0 THEN 0 - x.m ELSE x.m
             tenths == IF x.e = 0 THEN mag * 10
                       ELSE (2 * mag + Pow10(x.e - 1))
                               \div (2 * Pow10(x.e - 1))
         IN  (IF x.m < 0 THEN <<"-">> ELSE << >>)
                \o DigitChars(tenths \div 10)
                \o <<".", DigitChar(tenths % 10)>>

\* projection - parseFloat(bookmakerLine)
Difference == Minus(Number(projection, 1), parseFloat(bookmakerLine))

\* The sign shown before the difference, with >= for > (mutant of
\* DifferenceSign)
DifferenceSignFromZero(x) ==
    IF ~x.nan /\ x.m >= 0 THEN <<"+">> ELSE << >>

\* (projection - parseFloat(bookmakerLine)) > 0 ? "+" : ""
DifferenceSign(x) == IF GreaterThanZero(x) THEN <<"+">> ELSE << >>

\* The Difference cell, rendered only for a truthy bookmakerLine (the empty
\* text otherwise): the sign and the difference at one decimal
DifferenceText ==
    IF bookmakerLine = << >> THEN << >>
    ELSE DifferenceSign(Difference) \o toFixed1(Difference)

\* Texts typed into the Target Line box when comparing with the forecast.
DifferenceLines == LineTexts \cup { <<"2", "2", ".", "2", "5">>,
                                    <<"2", "3", ".", "9", "6">> }

\* queryKey without the target line (mutant of CalcKey)
CalcKeyWithoutLine(stat, line) ==
    <<"calculator-analysis", ToString(playerProp.player_id),
      ToString(getProjectionValue(playerProp, stat)), stat>>

\* queryKey of the calculator-analysis query
CalcKey(stat, line) ==
    <<"calculator-analysis", ToString(playerProp.player_id),
      ToString(getProjectionValue(playerProp, stat)), line, stat>>

\* the arguments queryFn passes to nbaApi.getCalculatorAnalysis
CalcArgs(stat, line) ==
    [player_id |-> playerProp.player_id,
     projection |-> getProjectionValue(playerProp, stat),
     line |-> parseFloat(line), stat |-> stat]

currentCalcKey == CalcKey(selectedStat, bookmakerLine)

\* enabled of the calculator-analysis query, were it always on (mutant of
\* CalcEnabled)
CalcEnabledAlways == TRUE

\* enabled of the calculator-analysis query
CalcEnabled == FALSE

CalcQuery == [cache |-> calcCache, inflight |-> calcInflight, n |-> nCalcReq]

\* The calculator observer after a render with (stat2, line2): an enabled
\* query whose key is new is fetched.
CalcObserverUpdate(q, stat2, line2) ==
    IF CalcEnabled /\ CalcKey(stat2, line2) # currentCalcKey
    THEN StartFetch(q, CalcKey(stat2, line2), CalcArgs(stat2, line2), FALSE)
    ELSE q

CalcQueryStep(q) ==
    /\ calcCache' = q.cache
    /\ calcInflight' = q.inflight
    /\ nCalcReq' = q.n

\* data of the calculator-analysis query for the rendered key
calculatorResult == EntryOf(calcCache, currentCalcKey).data

\* the result panel is rendered
PanelVisible == calculatorOpen /\ calculatorResult.req # 0

\* disabled of the Analyze Projection button, with < for <= (mutant of
\* AnalyzeDisabled)
AnalyzeDisabledStrict ==
    bookmakerLine = << >>
      \/ (~parseFloat(bookmakerLine).nan /\ parseFloat(bookmakerLine).m < 0)

\* disabled of the Analyze Projection button
AnalyzeDisabled ==
    bookmakerLine = << >> \/ AtMostZero(parseFloat(bookmakerLine))

----------------------------------------------------------------------------
(* PlayerDetailsModal: operations                                          *)

\* An average of PlayerHistory that is missing (null / undefined)
NoAvg == [defined |-> FALSE, GP |-> 0, PTS |-> 0]
\* h2h_avg / recent_form_avg: games played and points (tenths)
Avg(gp, pts) == [defined |-> TRUE, GP |-> gp, PTS |-> pts]

\* historyData is undefined: the query has no data
NoHistory == [defined |-> FALSE, recent_form_avg |-> NoAvg, h2h_avg |-> NoAvg]
History(recent, h2h) ==
    [defined |-> TRUE, recent_form_avg |-> recent, h2h_avg |-> h2h]

\* The histories nbaApi.getPlayerDetailsHistory may answer: each average
\* missing or present, the head-to-head one with no game or with games.
Histories ==
    {History(recent, h2h) :
        recent \in {NoAvg, Avg(5, 221)},
        h2h \in {NoAvg, Avg(0, 0), Avg(0, 250), Avg(3, 250)}}

\* isLoading of the history query where the tabs are rendered (isOpen, so
\* the query is enabled): no data yet and a call in flight
historyLoading == ~historyData.defined /\ historyFetching

\* historyData?.recent_form_avg || null
recentFormAvg ==
    IF historyData.defined /\ historyData.recent_form_avg.defined
    THEN historyData.recent_form_avg ELSE NoAvg

\* historyData?.h2h_avg || null
h2hAverage ==
    IF historyData.defined /\ historyData.h2h_avg.defined
    THEN historyData.h2h_avg ELSE NoAvg

\* the head-to-head tab without the games-played test (mutant of H2HTab)
H2HTabAnyAverage ==
    IF historyLoading THEN "spinner"
    ELSE IF h2hAverage.defined THEN "stats"
    ELSE "No head-to-head history"

\* what the head-to-head tab shows
H2HTab ==
    IF historyLoading THEN "spinner"
    ELSE IF h2hAverage.defined /\ h2hAverage.GP > 0 THEN "stats"
    ELSE "No head-to-head history"

\* what the recent-form tab shows
RecentTab ==
    IF historyLoading THEN "spinner"
    ELSE IF recentFormAvg.defined THEN "stats"
    ELSE "No recent data available"

PlayerInit ==
    /\ isOpen = FALSE
    /\ selectedStat = "PTS"
    /\ bookmakerLine = << >>
    /\ calculatorOpen = FALSE
    /\ calcCache = << >>
    /\ calcInflight = {}
    /\ nCalcReq = 0
    /\ historyData = NoHistory
    /\ historyFetching = FALSE
    /\ historyError = FALSE

\* The "player-details-history" observer of a render with isOpen = o2
\* (enabled: isOpen): a query that becomes enabled fetches when it has no
\* data or its data is stale, unless a call is in flight already.
HistoryObserverUpdate(o2, stale) ==
    IF o2 /\ ~isOpen /\ ~historyFetching /\ (~historyData.defined \/ stale)
    THEN [fetching |-> TRUE,
          error |-> IF historyData.defined THEN historyError ELSE FALSE]
    ELSE [fetching |-> historyFetching, error |-> historyError]

\* The parent opens or closes the modal.
PlayerParentRender(o2) ==
    /\ o2 # isOpen
    /\ isOpen' = o2
    /\ CalcQueryStep(CalcObserverUpdate(CalcQuery, selectedStat,
                                        bookmakerLine))
    /\ \E stale \in BOOLEAN :
          LET h == HistoryObserverUpdate(o2, stale)
          IN /\ historyFetching' = h.fetching
             /\ historyError' = h.error
    /\ UNCHANGED <<selectedStat, bookmakerLine, calculatorOpen, historyData,
                   matchVars, wpVars, viewVars>>

\* getPlayerDetailsHistory answers with history h
HistoryResolve(h) ==
    /\ historyFetching
    /\ historyData' = h
    /\ historyFetching' = FALSE
    /\ historyError' = FALSE
    /\ UNCHANGED <<isOpen, selectedStat, bookmakerLine, calculatorOpen,
                   calcCache, calcInflight, nCalcReq,
                   matchVars, wpVars, viewVars>>

\* getPlayerDetailsHistory fails (after the query layer's retries): the
\* query keeps the data it had.
HistoryReject ==
    /\ historyFetching
    /\ historyFetching' = FALSE
    /\ historyError' = TRUE
    /\ UNCHANGED <<isOpen, selectedStat, bookmakerLine, calculatorOpen,
                   calcCache, calcInflight, nCalcReq, historyData,
                   matchVars, wpVars, viewVars>>

\* onChange of the Target Line box
setBookmakerLine(text) ==
    /\ isOpen
    /\ InputNumberValue(text) # bookmakerLine
    /\ bookmakerLine' = InputNumberValue(text)
    /\ CalcQueryStep(CalcObserverUpdate(CalcQuery, selectedStat,
                                        bookmakerLine'))
    /\ UNCHANGED <<isOpen, selectedStat, calculatorOpen, histVars, matchVars, wpVars,
                   viewVars>>

\* handleStatChange without setCalculatorOpen(false) (mutant of
\* handleStatChange)
handleStatChangeKeepsPanel(value) ==
    /\ isOpen
    /\ selectedStat' = value
    /\ CalcQueryStep(CalcObserverUpdate(CalcQuery, value, bookmakerLine))
    /\ UNCHANGED <<isOpen, bookmakerLine, calculatorOpen, histVars, matchVars, wpVars,
                   viewVars>>

handleStatChange(value) ==
    /\ isOpen
    /\ selectedStat' = value
    /\ calculatorOpen' = FALSE
    /\ CalcQueryStep(CalcObserverUpdate(CalcQuery, value, bookmakerLine))
    /\ UNCHANGED <<isOpen, bookmakerLine, histVars, matchVars, wpVars,
                   viewVars>>

\* handleAnalyze: analyzeCalculator() is refetch() of the calculator query
handleAnalyze ==
    /\ isOpen
    /\ IF bookmakerLine # << >> /\ GreaterThanZero(parseFloat(bookmakerLine))
       THEN /\ CalcQueryStep(StartFetch(CalcQuery, currentCalcKey,
                                        CalcArgs(selectedStat, bookmakerLine),
                                        TRUE))
            /\ calculatorOpen' = TRUE
       ELSE UNCHANGED <<calcCache, calcInflight, nCalcReq, calculatorOpen>>
    /\ UNCHANGED <<isOpen, selectedStat, bookmakerLine, histVars, matchVars, wpVars,
                   viewVars>>

\* getCalculatorAnalysis answers request r
CalcResolve(r) ==
    /\ r \in calcInflight
    /\ calcInflight' = calcInflight \ {r}
    /\ calcCache' = SettleFetch(calcCache, r, TRUE)
    /\ UNCHANGED <<isOpen, selectedStat, bookmakerLine, calculatorOpen,
                   nCalcReq, histVars, matchVars, wpVars,
                   viewVars>>

\* getCalculatorAnalysis fails for request r
CalcReject(r) ==
    /\ r \in calcInflight
    /\ calcInflight' = calcInflight \ {r}
    /\ calcCache' = SettleFetch(calcCache, r, FALSE)
    /\ UNCHANGED <<isOpen, selectedStat, bookmakerLine, calculatorOpen,
                   nCalcReq, histVars, matchVars, wpVars,
                   viewVars>>

----------------------------------------------------------------------------
(* Win Probability Bar of the match modal                                  *)
(* Percentages are integers in tenths of a percent: 1000 is 100%.          *)

\* prediction.win_probability_home is missing
NoWinProbability == [defined |-> FALSE, v |-> 0]
WinProbability(v) == [defined |-> TRUE, v |-> v]

\* prediction?.win_probability_home || 0
OrZero(p) == IF p.defined THEN p.v ELSE 0

Max(a, b) == IF a >= b THEN a ELSE b

\* the home value without Math.max (mutant of HomeValue)
HomeValueUnclamped(p) == OrZero(p)

\* Math.max(0, prediction?.win_probability_home || 0)
HomeValue(p) == Max(0, OrZero(p))

\* Math.max(0, 100 - (prediction?.win_probability_home || 0))
AwayValue(p) == Max(0, 1000 - OrZero(p))

\* x.toFixed(0) of a value x >= 0 given in tenths: the integer nearest to x,
\* the larger one when two are equally near (x ends in .5, which a binary
\* floating-point number holds exactly).
toFixed(x) == ToString((x + 5) \div 10)

NotRendered == [rendered |-> FALSE, home |-> 0, away |-> 0,
                homeText |-> "", awayText |-> ""]

\* the two Progress values of the bar and the two percentages next to them
WinProbabilityBar(p) ==
    [rendered |-> TRUE, home |-> HomeValue(p), away |-> AwayValue(p),
     homeText |-> toFixed(HomeValue(p)) \o "%",
     awayText |-> toFixed(AwayValue(p)) \o "%"]

\* The prediction card renders the bar for the prediction it received.
RenderWinProbabilityBar ==
    /\ ~wpRendered.rendered
    /\ wpRendered' = WinProbabilityBar(winProbabilityHome)
    /\ UNCHANGED <<winProbabilityHome, matchVars, playerVars, viewVars>>

\* The raw values an API answer may carry: missing, or any tenth of a percent
\* from WinProbSpan below 0% to WinProbSpan above 100%.
WinProbabilityInputs ==
    {NoWinProbability}
      \cup {WinProbability(v) : v \in (0 - WinProbSpan)..(1000 + WinProbSpan)}

----------------------------------------------------------------------------
(* Text and letter case                                                    *)
(* A character is a one-character string; the characters outside ASCII     *)
(* are named: "e'" is e with acute accent, "E'" its capital, and "long-s"  *)
(* is the long s (U+017F), a lowercase letter whose capital is "S".        *)

UpperLetters == <<"A", "B", "C", "D", "E", "F", "G", "H", "I", "J", "K", "L",
                  "M", "N", "O", "P", "Q", "R", "S", "T", "U", "V", "W", "X",
                  "Y", "Z", "E'">>
LowerLetters == <<"a", "b", "c", "d", "e", "f", "g", "h", "i", "j", "k", "l",
                  "m", "n", "o", "p", "q", "r", "s", "t", "u", "v", "w", "x",
                  "y", "z", "e'">>

IndexIn(letters, c) == CHOOSE i \in 1..Len(letters) : letters[i] = c
IsIn(letters, c) == \E i \in 1..Len(letters) : letters[i] = c

\* String.prototype.toLowerCase, one character
toLowerCaseChar(c) ==
    IF IsIn(UpperLetters, c) THEN LowerLetters[IndexIn(UpperLetters, c)]
    ELSE c

\* String.prototype.toUpperCase, one character
toUpperCaseChar(c) ==
    IF c = "long-s" THEN "S"
    ELSE IF IsIn(LowerLetters, c) THEN UpperLetters[IndexIn(LowerLetters, c)]
    ELSE c

toLowerCase(text) == [i \in 1..Len(text) |-> toLowerCaseChar(text[i])]
toUpperCase(text) == [i \in 1..Len(text) |-> toUpperCaseChar(text[i])]

\* String.prototype.includes
includes(text, word) ==
    \E i \in 0..(Len(text) - Len(word)) :
        SubSeq(text, i + 1, i + Len(word)) = word

\* The letter case of character i of a text changed: a capital becomes its
\* small letter, any other letter its capital.
CaseChanged(text, i) ==
    [text EXCEPT ![i] = IF toLowerCaseChar(text[i]) # text[i]
                        THEN toLowerCaseChar(text[i])
                        ELSE toUpperCaseChar(text[i])]

\* The roster filter comparing the name as written with the search text as
\* typed (mutant of PlayerSearchResults)
PlayerSearchResultsCaseSensitive(roster, query) ==
    SelectSeq(roster, LAMBDA player : includes(player.full_name, query))

\* roster.filter((player) =>
\*   player.full_name.toLowerCase().includes(query.toLowerCase()))
PlayerSearchResults(roster, query) ==
    SelectSeq(roster, LAMBDA player :
        includes(toLowerCase(player.full_name), toLowerCase(query)))

homePlayerSearchResults == PlayerSearchResults(homeRoster, homeSearchQuery)
awayPlayerSearchResults == PlayerSearchResults(awayRoster, awaySearchQuery)

\* Texts typed into the roster search boxes when looking for a name.
NameQueries == { << >>, <<"b">>, <<"B">>, <<"A", "L">>, <<"o", "b">>,
                 <<"a">> }

\* A string that is undefined / null, and a string
NoText == [defined |-> FALSE, text |-> << >>]
Text(t) == [defined |-> TRUE, text |-> t]

\* !s of a string | undefined | null
Falsy(s) == ~s.defined \/ s.text = << >>

----------------------------------------------------------------------------
(* Confidence badge of the match modal                                     *)

Gray    == "bg-gray-500/20 text-gray-400 border-gray-500/30"
Amber   == "bg-amber-500/20 text-amber-400 border-amber-500/30"
Emerald == "bg-emerald-500/20 text-emerald-400 border-emerald-500/30"
Red     == "bg-red-500/20 text-red-400 border-red-500/30"
Blue    == "bg-blue-500/20 text-blue-400 border-blue-500/30"

\* the keywords of the three tests
TightWords   == {<<"i", "n", "d", "e'", "c", "i", "s">>,
                 <<"t", "i", "g", "h", "t">>,
                 <<"s", "e", "r", "r", "e'">>}
SolidWords   == {<<"s", "o", "l", "i", "d">>,
                 <<"s", "o", "l", "i", "d", "e">>}
BlowoutWords == {<<"b", "l", "o", "w", "o", "u", "t">>}

includesAny(text, words) == \E word \in words : includes(text, word)

\* getConfidenceBadgeColor with the solid test ahead of the tight test
\* (mutant of getConfidenceBadgeColor)
getConfidenceBadgeColorSolidFirst(lvl) ==
    IF Falsy(lvl) THEN Gray
    ELSE LET lower == toLowerCase(lvl.text)
         IN IF includesAny(lower, SolidWords) THEN Emerald
            ELSE IF includesAny(lower, TightWords) THEN Amber
            ELSE IF includesAny(lower, BlowoutWords) THEN Red
            ELSE Blue

getConfidenceBadgeColor(lvl) ==
    IF Falsy(lvl) THEN Gray
    ELSE LET lower == toLowerCase(lvl.text)
         IN IF includesAny(lower, TightWords) THEN Amber
            ELSE IF includesAny(lower, SolidWords) THEN Emerald
            ELSE IF includesAny(lower, BlowoutWords) THEN Red
            ELSE Blue

\* The confidence labels a prediction may carry: missing, empty, the labels
\* of the two languages, labels with two keywords, a label with none, and a
\* label spelt with a long s.
ConfidenceLevels ==
    {NoText, Text(<< >>),
     Text(<<"B", "l", "o", "w", "o", "u", "t">>),
     Text(<<"B", "L", "O", "W", "O", "U", "T">>),
     Text(<<"b", "l", "o", "w", "o", "u", "t", " ", "r", "i", "s", "k">>),
     Text(<<"T", "i", "g", "h", "t">>),
     Text(<<"S", "e", "r", "r", "e'">>),
     Text(<<"I", "n", "d", "e'", "c", "i", "s">>),
     Text(<<"S", "o", "l", "i", "d", "e">>),
     Text(<<"s", "o", "l", "i", "d", " ", "t", "i", "g", "h", "t">>),
     Text(<<"H", "i", "g", "h">>),
     Text(<<"long-s", "o", "l", "i", "d">>)}

\* the badge is not rendered yet
NoBadge == ""

ConfInit ==
    /\ level = NoText
    /\ confidenceBadge = NoBadge

\* The prediction card renders the confidence badge for the label received.
RenderConfidenceBadge ==
    /\ confidenceBadge = NoBadge
    /\ confidenceBadge' = getConfidenceBadgeColor(level)
    /\ UNCHANGED <<level, recVars, matchVars, playerVars, wpVars>>

\* The same label arrives with the letter case of character i changed, and
\* the badge is rendered for it.
ConfidenceLevelCase(i) ==
    /\ confidenceBadge # NoBadge
    /\ level.defined
    /\ i \in 1..Len(level.text)
    /\ CaseChanged(level.text, i) # level.text
    /\ level' = Text(CaseChanged(level.text, i))
    /\ confidenceBadge' = getConfidenceBadgeColor(level')
    /\ UNCHANGED <<recVars, matchVars, playerVars, wpVars>>

----------------------------------------------------------------------------
(* Recommendation panel of the player modal                                *)

PanelEmerald == "bg-emerald-500/20 border-emerald-500/30 text-emerald-200"
PanelRed     == "bg-red-500/20 border-red-500/30 text-red-200"
PanelAmber   == "bg-amber-500/20 border-amber-500/30 text-amber-200"
PanelSlate   == "bg-slate-800/30 border-slate-700/50 text-slate-200"

Green  == <<"g", "r", "e", "e", "n">>
RedCode == <<"r", "e", "d">>
AmberCode == <<"a", "m", "b", "e", "r">>
Yellow == <<"y", "e", "l", "l", "o", "w">>
OVER   == <<"O", "V", "E", "R">>
UNDER  == <<"U", "N", "D", "E", "R">>

\* the inference with the UNDER test ahead of the OVER test (mutant of
\* adviceColor)
adviceColorUnderFirst(adv) ==
    IF Falsy(adv) THEN PanelSlate
    ELSE LET upper == toUpperCase(adv.text)
         IN IF includes(upper, UNDER) THEN PanelRed
            ELSE IF includes(upper, OVER) THEN PanelEmerald
            ELSE PanelAmber

\* getRecommendationColor below its if (colorCode) block
adviceColor(adv) ==
    IF Falsy(adv) THEN PanelSlate
    ELSE LET upper == toUpperCase(adv.text)
         IN IF includes(upper, OVER) THEN PanelEmerald
            ELSE IF includes(upper, UNDER) THEN PanelRed
            ELSE PanelAmber

\* the switch on colorCode.toLowerCase()
codeColor(code) ==
    LET lower == toLowerCase(code.text)
    IN CASE lower = Green -> PanelEmerald
         [] lower = RedCode -> PanelRed
         [] lower \in {AmberCode, Yellow} -> PanelAmber
         [] OTHER -> PanelSlate

\* getRecommendationColor inferring from the advice whenever it names a side
\* (mutant of getRecommendationColor)
getRecommendationColorAdviceFirst(adv, code) ==
    IF ~Falsy(adv) /\ adviceColor(adv) # PanelAmber THEN adviceColor(adv)
    ELSE IF ~Falsy(code) THEN codeColor(code)
    ELSE adviceColor(adv)

getRecommendationColor(adv, code) ==
    IF ~Falsy(code) THEN codeColor(code) ELSE adviceColor(adv)

\* The advice texts and colour codes a calculator result may carry.
Advices ==
    {NoText, Text(<< >>), Text(OVER), Text(UNDER),
     Text(<<"O", "V", "E", "R", "/", "U", "N", "D", "E", "R">>),
     Text(<<"L", "e", "a", "n", " ", "u", "n", "d", "e", "r">>),
     Text(<<"P", "A", "S", "S">>)}
ColorCodes ==
    {NoText, Text(<< >>), Text(Green), Text(RedCode), Text(AmberCode),
     Text(Yellow), Text(<<"b", "l", "u", "e">>)}

\* the panel is not rendered yet
NoPanel == ""

RecInit ==
    /\ advice = NoText
    /\ colorCode = NoText
    /\ recommendationColor = NoPanel

\* The result panel is rendered for the calculator result received.
RenderRecommendation ==
    /\ recommendationColor = NoPanel
    /\ recommendationColor' = getRecommendationColor(advice, colorCode)
    /\ UNCHANGED <<advice, colorCode, confVars, matchVars, playerVars,
                   wpVars>>

\* The same result arrives with the letter case of character i of its colour
\* code changed, and the panel is rendered for it.
ColorCodeCase(i) ==
    /\ recommendationColor # NoPanel
    /\ colorCode.defined
    /\ i \in 1..Len(colorCode.text)
    /\ CaseChanged(colorCode.text, i) # colorCode.text
    /\ colorCode' = Text(CaseChanged(colorCode.text, i))
    /\ recommendationColor' = getRecommendationColor(advice, colorCode')
    /\ UNCHANGED <<advice, confVars, matchVars, playerVars, wpVars>>

----------------------------------------------------------------------------
(* Specifications                                                          *)

WpInit ==
    /\ winProbabilityHome = NoWinProbability
    /\ wpRendered = NotRendered

Init == MatchInit /\ PlayerInit /\ WpInit /\ ConfInit /\ RecInit

\* A behaviour is explored while it has issued at most n predictMatch calls.
WithinRequests(n) == nReq' <= n

\* The key inputs and the key of the current render are remembered, to be
\* compared with those of a later render.
Remember ==
    /\ open
    /\ remembered' = [homeTeamId |-> homeTeamId, awayTeamId |-> awayTeamId,
                      homeIds |-> Ids(homeMissingPlayers),
                      awayIds |-> Ids(awayMissingPlayers),
                      key |-> currentKey]
    /\ remembered' # remembered
    /\ UNCHANGED <<open, game, homeMissingPlayers, awayMissingPlayers,
                   homeSearchQuery, awaySearchQuery, homePopoverOpen,
                   awayPopoverOpen, failedLogos, rosterLoaded, rosterRequests,
                   predCache,
                   predInflight, nReq, lastRefresh, closeCalls,
                   queryMajor,
                   playerVars, wpVars, viewVars>>

\* The prediction query under absence changes, Refresh and the network.
NextQuery ==
    \/ \E g2 \in Games : ParentRender(TRUE, g2) /\ WithinRequests(MaxReq)
    \/ \E code \in {"LAL", "BOS"} : RosterResolve(code)
    \/ \E player \in PlayersOf(homeRoster) :
          addHomeMissingPlayer(player) /\ WithinRequests(MaxReq)
    \/ \E player \in PlayersOf(awayRoster) :
          addAwayMissingPlayer(player) /\ WithinRequests(MaxReq)
    \/ \E playerId \in PlayerIds :
          removeHomeMissingPlayer(playerId) /\ WithinRequests(MaxReq)
    \/ \E playerId \in PlayerIds :
          removeAwayMissingPlayer(playerId) /\ WithinRequests(MaxReq)
    \/ Refresh /\ WithinRequests(MaxReq)
    \/ \E r \in predInflight : FetchResolve(r)
    \/ \E r \in predInflight : FetchReject(r)

SpecQuery == Init /\ [][NextQuery]_vars

\* The absence selection: adds, removes, search boxes and popovers.
NextAbsence ==
    \/ \E g2 \in Games : ParentRender(TRUE, g2) /\ WithinRequests(MaxKeys)
    \/ \E code \in {"LAL", "BOS"} : RosterResolve(code)
    \/ \E player \in PlayersOf(homeRoster) :
          addHomeMissingPlayer(player) /\ WithinRequests(MaxKeys)
    \/ \E player \in PlayersOf(awayRoster) :
          addAwayMissingPlayer(player) /\ WithinRequests(MaxKeys)
    \/ \E playerId \in PlayerIds :
          removeHomeMissingPlayer(playerId) /\ WithinRequests(MaxKeys)
    \/ \E playerId \in PlayerIds :
          removeAwayMissingPlayer(playerId) /\ WithinRequests(MaxKeys)
    \/ \E text \in SearchTexts : setHomeSearchQuery(text)
    \/ \E text \in SearchTexts : setAwaySearchQuery(text)
    \/ \E b \in BOOLEAN : setHomePopoverOpen(b)
    \/ \E b \in BOOLEAN : setAwayPopoverOpen(b)

SpecAbsence == Init /\ [][NextAbsence]_vars

\* A behaviour is explored while it has issued at most n
\* getCalculatorAnalysis calls.
WithinCalcRequests(n) == nCalcReq' <= n

\* The projection analyzer of the player modal.
NextPlayer ==
    \/ \E o2 \in BOOLEAN :
          PlayerParentRender(o2) /\ WithinCalcRequests(MaxCalcReq)
    \/ \E text \in LineTexts :
          setBookmakerLine(text) /\ WithinCalcRequests(MaxCalcReq)
    \/ \E value \in StatCategory :
          handleStatChange(value) /\ WithinCalcRequests(MaxCalcReq)
    \/ handleAnalyze /\ WithinCalcRequests(MaxCalcReq)
    \/ \E r \in calcInflight : CalcResolve(r)
    \/ \E r \in calcInflight : CalcReject(r)

SpecPlayer == Init /\ [][NextPlayer]_vars

\* The win probability bar, rendered for every raw value.
InitWinProbability ==
    /\ MatchInit
    /\ PlayerInit
    /\ ConfInit
    /\ RecInit
    /\ winProbabilityHome \in WinProbabilityInputs
    /\ wpRendered = NotRendered

NextWinProbability == RenderWinProbabilityBar

SpecWinProbability == InitWinProbability /\ [][NextWinProbability]_vars

\* The query key across renders: the absence selection and Remember.
NextKey ==
    \/ \E g2 \in Games : ParentRender(TRUE, g2) /\ WithinRequests(MaxKeys)
    \/ \E code \in {"LAL", "BOS"} : RosterResolve(code)
    \/ \E player \in PlayersOf(homeRoster) :
          addHomeMissingPlayer(player) /\ WithinRequests(MaxKeys)
    \/ \E player \in PlayersOf(awayRoster) :
          addAwayMissingPlayer(player) /\ WithinRequests(MaxKeys)
    \/ \E playerId \in PlayerIds :
          removeHomeMissingPlayer(playerId) /\ WithinRequests(MaxKeys)
    \/ \E playerId \in PlayerIds :
          removeAwayMissingPlayer(playerId) /\ WithinRequests(MaxKeys)
    \/ Remember

SpecKey == Init /\ [][NextKey]_vars

\* The modal across the parent's renders: opened, closed and given other
\* games while the absence selection goes on.
NextLifecycle ==
    \/ \E o2 \in BOOLEAN, g2 \in {Game1, Game2} :
          ParentRender(o2, g2) /\ WithinRequests(MaxLifeReq)
    \/ \E code \in {"LAL", "BOS"} : RosterResolve(code)
    \/ \E player \in PlayersOf(homeRoster) :
          addHomeMissingPlayer(player) /\ WithinRequests(MaxLifeReq)
    \/ \E player \in PlayersOf(awayRoster) :
          addAwayMissingPlayer(player) /\ WithinRequests(MaxLifeReq)
    \/ \E playerId \in PlayerIds :
          removeHomeMissingPlayer(playerId) /\ WithinRequests(MaxLifeReq)
    \/ \E playerId \in PlayerIds :
          removeAwayMissingPlayer(playerId) /\ WithinRequests(MaxLifeReq)

SpecLifecycle == Init /\ [][NextLifecycle]_vars

\* The modal across games: rosters and predictions arrive for the games
\* the parent passes, and logo images fail to load.
NextGames ==
    \/ \E o2 \in BOOLEAN, g2 \in GameProps :
          ParentRender(o2, g2) /\ WithinRequests(MaxLifeReq)
    \/ \E code \in {"LAL", "BOS", ""} : RosterResolve(code)
    \/ \E r \in predInflight : FetchResolve(r)
    \/ \E r \in predInflight : FetchReject(r)
    \/ \E teamId \in LogoImages : handleLogoError(teamId)

SpecGames == Init /\ [][NextGames]_vars

\* The history tabs of the player modal.
NextHistory ==
    \/ \E o2 \in BOOLEAN : PlayerParentRender(o2)
    \/ \E value \in StatCategory : handleStatChange(value)
    \/ \E h \in Histories : HistoryResolve(h)
    \/ HistoryReject

SpecHistory == Init /\ [][NextHistory]_vars

\* The confidence badge, rendered for every label and for its case variants.
InitConfidence ==
    /\ MatchInit
    /\ PlayerInit
    /\ WpInit
    /\ RecInit
    /\ level \in ConfidenceLevels
    /\ confidenceBadge = NoBadge

NextConfidence ==
    \/ RenderConfidenceBadge
    \/ \E i \in 1..MaxTextLen : ConfidenceLevelCase(i)

SpecConfidence == InitConfidence /\ [][NextConfidence]_vars

\* The recommendation panel, rendered for every advice and colour code and
\* for the case variants of the colour code.
InitRecommendation ==
    /\ MatchInit
    /\ PlayerInit
    /\ WpInit
    /\ ConfInit
    /\ advice \in Advices
    /\ colorCode \in ColorCodes
    /\ recommendationColor = NoPanel

NextRecommendation ==
    \/ RenderRecommendation
    \/ \E i \in 1..MaxTextLen : ColorCodeCase(i)

SpecRecommendation == InitRecommendation /\ [][NextRecommendation]_vars

\* A behaviour is explored while Close has been clicked at most n times.
WithinCloseCalls(n) == closeCalls' <= n

\* The body of the match modal: every game the parent passes, Refresh and
\* the network, under each version of the query library.
InitDisplay ==
    /\ \E major \in QueryMajors : MatchInitOf(major)
    /\ PlayerInit
    /\ WpInit
    /\ ConfInit
    /\ RecInit

NextDisplay ==
    \/ \E o2 \in BOOLEAN, g2 \in GameProps :
          ParentRender(o2, g2) /\ WithinRequests(MaxDisplayReq)
    \/ Refresh /\ WithinRequests(MaxDisplayReq)
    \/ \E r \in predInflight : FetchResolve(r)
    \/ \E r \in predInflight : FetchReject(r)

SpecDisplay == InitDisplay /\ [][NextDisplay]_vars

\* The operations of the open modal side by side: home absences, a search
\* box and a popover, logo failures, Refresh, Close and the network.
NextFrame ==
    \/ \E g2 \in Games : ParentRender(TRUE, g2) /\ WithinRequests(MaxDisplayReq)
    \/ \E code \in {"LAL", "BOS"} : RosterResolve(code)
    \/ \E player \in PlayersOf(homeRoster) :
          addHomeMissingPlayer(player) /\ WithinRequests(MaxDisplayReq)
    \/ \E playerId \in PlayerIds :
          removeHomeMissingPlayer(playerId) /\ WithinRequests(MaxDisplayReq)
    \/ \E text \in SearchTexts : setHomeSearchQuery(text)
    \/ \E b \in BOOLEAN : setHomePopoverOpen(b)
    \/ Refresh /\ WithinRequests(MaxDisplayReq)
    \/ Close /\ WithinCloseCalls(MaxCloseCalls)
    \/ \E r \in predInflight : FetchResolve(r)
    \/ \E teamId \in LogoImages : handleLogoError(teamId)

SpecFrame == Init /\ [][NextFrame]_vars

\* The roster search: the rosters of every game the parent passes, and the
\* texts typed into the two search boxes.
NextSearch ==
    \/ \E o2 \in BOOLEAN, g2 \in GameProps :
          ParentRender(o2, g2) /\ WithinRequests(MaxLifeReq)
    \/ \E code \in {"LAL", "BOS", ""} : RosterResolve(code)
    \/ \E text \in NameQueries : setHomeSearchQuery(text)
    \/ \E text \in NameQueries : setAwaySearchQuery(text)

SpecSearch == Init /\ [][NextSearch]_vars

\* The Difference cell of the projection analyzer: target lines and stat
\* categories, with the history query running beside them.
NextDifference ==
    \/ \E o2 \in BOOLEAN : PlayerParentRender(o2)
    \/ \E text \in DifferenceLines : setBookmakerLine(text)
    \/ \E value \in StatCategory : handleStatChange(value)
    \/ \E h \in Histories : HistoryResolve(h)
    \/ HistoryReject

SpecDifference == Init /\ [][NextDifference]_vars

\* The home absences with events handled one per render and two per render.
NextBatch ==
    \/ \E g2 \in Games : ParentRender(TRUE, g2) /\ WithinRequests(MaxLifeReq)
    \/ \E code \in {"LAL", "BOS"} : RosterResolve(code)
    \/ \E player \in PlayersOf(homeRoster) :
          addHomeMissingPlayer(player) /\ WithinRequests(MaxLifeReq)
    \/ \E playerId \in PlayerIds :
          removeHomeMissingPlayer(playerId) /\ WithinRequests(MaxLifeReq)
    \/ \E text \in SearchTexts : setHomeSearchQuery(text)
    \/ \E b \in BOOLEAN : setHomePopoverOpen(b)
    \/ \E e1, e2 \in HomeEvents :
          /\ homeRoster # << >>
          /\ HomeEventsOnOneRender(e1, e2)
          /\ WithinRequests(MaxLifeReq)

SpecBatch == Init /\ [][NextBatch]_vars

\* The two sides of the absence selection, each with its adds, removes,
\* search box and popover.
NextSides ==
    \/ \E g2 \in Games : ParentRender(TRUE, g2) /\ WithinRequests(MaxDisplayReq)
    \/ \E code \in {"LAL", "BOS"} : RosterResolve(code)
    \/ \E player \in PlayersOf(homeRoster) :
          addHomeMissingPlayer(player) /\ WithinRequests(MaxDisplayReq)
    \/ \E player \in PlayersOf(awayRoster) :
          addAwayMissingPlayer(player) /\ WithinRequests(MaxDisplayReq)
    \/ \E playerId \in PlayerIds :
          removeHomeMissingPlayer(playerId) /\ WithinRequests(MaxDisplayReq)
    \/ \E playerId \in PlayerIds :
          removeAwayMissingPlayer(playerId) /\ WithinRequests(MaxDisplayReq)
    \/ \E text \in SearchTexts : setHomeSearchQuery(text)
    \/ \E text \in SearchTexts : setAwaySearchQuery(text)
    \/ \E b \in BOOLEAN : setHomePopoverOpen(b)
    \/ \E b \in BOOLEAN : setAwayPopoverOpen(b)

SpecSides == Init /\ [][NextSides]_vars

----------------------------------------------------------------------------
(* Properties of the absence selection (SpecAbsence)                       *)

NoDuplicates(players) ==
    \A i, j \in 1..Len(players) : i # j => players[i].id # players[j].id

\* C1: after any sequence of adds and removes on a side, starting from the
\* empty list, that side's absence list holds no two entries with the same
\* player id.
C1_NoDuplicateIds ==
    NoDuplicates(homeMissingPlayers) /\ NoDuplicates(awayMissingPlayers)

\* Both home players are absent and the away player is: every add has acted,
\* and each further add is a repeated one.
C1_Witness ==
    /\ Len(homeMissingPlayers) = 2
    /\ Len(awayMissingPlayers) = 1

\* everything but the named side's list, search text and popover flag
HomeAddFrame ==
    UNCHANGED <<open, game, awayMissingPlayers, awaySearchQuery,
                awayPopoverOpen, failedLogos, rosterLoaded, rosterRequests,
                predCache,
                predInflight, nReq, lastRefresh, closeCalls,
                   queryMajor, remembered,
                playerVars, wpVars, viewVars>>
AwayAddFrame ==
    UNCHANGED <<open, game, homeMissingPlayers, homeSearchQuery,
                homePopoverOpen, failedLogos, rosterLoaded, rosterRequests,
                predCache,
                predInflight, nReq, lastRefresh, closeCalls,
                   queryMajor, remembered,
                playerVars, wpVars, viewVars>>

\* C2: adding a player whose id is already in a side's absence list leaves
\* that list as it is (same members, same order), clears that side's search
\* text and closes that side's popover, and changes nothing else.
C2_AddPresentFrame ==
    [][ /\ \A player \in PlayersOf(homeRoster) :
              (addHomeMissingPlayer(player)
                 /\ HasId(homeMissingPlayers, player.id))
              => /\ homeMissingPlayers' = homeMissingPlayers
                 /\ homeSearchQuery' = << >>
                 /\ homePopoverOpen' = FALSE
                 /\ HomeAddFrame
        /\ \A player \in PlayersOf(awayRoster) :
              (addAwayMissingPlayer(player)
                 /\ HasId(awayMissingPlayers, player.id))
              => /\ awayMissingPlayers' = awayMissingPlayers
                 /\ awaySearchQuery' = << >>
                 /\ awayPopoverOpen' = FALSE
                 /\ AwayAddFrame ]_vars

\* A player is absent on each side while that side's search box holds text
\* and its popover is open: adding the player again is enabled and has
\* something to clear and to close.
C2_Witness ==
    /\ open
    /\ \E player \in PlayersOf(homeRoster) :
          HasId(homeMissingPlayers, player.id)
    /\ homeSearchQuery # << >> /\ homePopoverOpen
    /\ \E player \in PlayersOf(awayRoster) :
          HasId(awayMissingPlayers, player.id)
    /\ awaySearchQuery # << >> /\ awayPopoverOpen

\* the entries of a list, as a set
Entries(players) == {players[i] : i \in 1..Len(players)}

\* what a remove of playerId must leave of a list
RemovedExactly(before, after, playerId) ==
    /\ Entries(after) = {p \in Entries(before) : p.id # playerId}
    /\ Len(after) = Cardinality(Entries(after))

\* C3: a remove with an id that is not in the side's absence list changes
\* nothing (the list, the prediction query key and all other state); with an
\* id that is present it removes exactly that entry and keeps every other one.
C3_RemoveFrame ==
    [][ /\ \A playerId \in PlayerIds :
              removeHomeMissingPlayer(playerId)
              => /\ ~HasId(homeMissingPlayers, playerId)
                      => /\ UNCHANGED vars
                         /\ currentKey' = currentKey
                 /\ RemovedExactly(homeMissingPlayers, homeMissingPlayers',
                                   playerId)
                 /\ UNCHANGED <<awayMissingPlayers, homeSearchQuery,
                                awaySearchQuery, homePopoverOpen,
                                awayPopoverOpen, failedLogos>>
        /\ \A playerId \in PlayerIds :
              removeAwayMissingPlayer(playerId)
              => /\ ~HasId(awayMissingPlayers, playerId)
                      => /\ UNCHANGED vars
                         /\ currentKey' = currentKey
                 /\ RemovedExactly(awayMissingPlayers, awayMissingPlayers',
                                   playerId)
                 /\ UNCHANGED <<homeMissingPlayers, homeSearchQuery,
                                awaySearchQuery, homePopoverOpen,
                                awayPopoverOpen, failedLogos>> ]_vars

\* Two players are absent at home and one away, so that a remove can name a
\* present id (the other entries must stay) or an id of the other side.
C3_Witness ==
    /\ open
    /\ Len(homeMissingPlayers) = 2
    /\ Len(awayMissingPlayers) = 1
    /\ \E playerId \in PlayerIds : ~HasId(homeMissingPlayers, playerId)

----------------------------------------------------------------------------
(* Properties of the prediction query key (SpecKey)                        *)

SameTeams ==
    /\ remembered.key # << >>
    /\ remembered.homeTeamId = homeTeamId
    /\ remembered.awayTeamId = awayTeamId

Range(f) == {f[i] : i \in DOMAIN f}

\* C4 as stated: two renders with the same team codes whose home absence
\* lists are equal as sets and whose away absence lists are equal as sets
\* have identical prediction query keys, whatever the order of the adds.
C4_KeyOrderIndependent ==
    (/\ SameTeams
     /\ Range(remembered.homeIds) = IdSet(homeMissingPlayers)
     /\ Range(remembered.awayIds) = IdSet(awayMissingPlayers))
    => remembered.key = currentKey

\* C4 as amended: two renders with the same team codes have identical
\* prediction query keys exactly when their home absence id lists are equal
\* as sequences and their away absence id lists are equal as sequences.
C4_KeyFollowsListOrder ==
    SameTeams
    => (remembered.key = currentKey
          <=> /\ remembered.homeIds = Ids(homeMissingPlayers)
              /\ remembered.awayIds = Ids(awayMissingPlayers))

\* The same two home players are absent in the remembered render and in the
\* current one, added in the opposite order.
C4_Witness ==
    /\ SameTeams
    /\ Len(remembered.homeIds) = 2
    /\ Range(remembered.homeIds) = IdSet(homeMissingPlayers)
    /\ remembered.homeIds # Ids(homeMissingPlayers)
    /\ remembered.awayIds = Ids(awayMissingPlayers)

----------------------------------------------------------------------------
(* Properties of the prediction query (SpecQuery)                          *)

\* C5: in every interleaving of absence adds and removes with fetch
\* completions, the prediction displayed was fetched for the current query
\* key (current team codes and absence id lists), and every answer is kept
\* under the key it was fetched for.
C5_StaleResponseDiscarded ==
    /\ prediction # NoData
          => prediction.args = PredArgs(game, homeMissingPlayers,
                                        awayMissingPlayers)
    /\ \A key \in DOMAIN predCache :
          predCache[key].data # NoData
          => key = <<"match-prediction", predCache[key].data.args.homeTeamId,
                     predCache[key].data.args.awayTeamId,
                     Join(predCache[key].data.args.homeIds),
                     Join(predCache[key].data.args.awayIds)>>

\* A prediction is displayed while a fetch issued for another key, since
\* superseded, is still in flight.
C5_Witness ==
    /\ prediction # NoData
    /\ \E r \in predInflight : r.key # currentKey

\* C6: Refresh can be invoked while a fetch for the same key is in flight;
\* once every outstanding fetch has resolved, the prediction displayed for
\* the refreshed key is the answer to the request the latest Refresh resolved
\* to or to a later one, never to an earlier one.
C6_RefreshLatestWins ==
    (/\ lastRefresh.req # 0
     /\ lastRefresh.key = currentKey
     /\ predInflight = {}
     /\ ~EntryOf(predCache, currentKey).error)
    => /\ prediction # NoData
       /\ prediction.req >= lastRefresh.req

\* Three requests went to the one key ever rendered, the last two issued by
\* Refresh, and the answer to the latest is displayed.
C6_Witness ==
    /\ DOMAIN predCache = {currentKey}
    /\ predInflight = {}
    /\ lastRefresh.key = currentKey
    /\ lastRefresh.req = 3
    /\ prediction.req = 3

----------------------------------------------------------------------------
(* Properties of the projection analyzer (SpecPlayer)                      *)

\* C7: selecting a stat category leaves calculatorOpen false, whatever it
\* was, and calculatorOpen becomes true again only by an Analyze with a line
\* that parses to a number above 0.
C7_StatChangeClosesPanel ==
    [][ /\ \A value \in StatCategory :
              handleStatChange(value) => calculatorOpen' = FALSE
        /\ (~calculatorOpen /\ calculatorOpen')
              => /\ handleAnalyze
                 /\ GreaterThanZero(parseFloat(bookmakerLine)) ]_vars

\* The result panel is open and shows a result, and another category can be
\* selected.
C7_Witness ==
    /\ isOpen
    /\ PanelVisible

\* C8: getCalculatorAnalysis is called only by an Analyze step, never by a
\* line edit, a stat change or the modal opening or closing, and then with
\* the player id, the current projection, the parsed current line and the
\* current stat category, under the current calculator query key.
C8_CalculatorOnDemandOnly ==
    [][ nCalcReq' # nCalcReq
        => /\ handleAnalyze
           /\ nCalcReq' = nCalcReq + 1
           /\ \E r \in calcInflight' \ calcInflight :
                 /\ r.req = nCalcReq'
                 /\ r.key = currentCalcKey /\ currentCalcKey' = currentCalcKey
                 /\ r.key = <<"calculator-analysis",
                              ToString(r.args.player_id),
                              ToString(r.args.projection), bookmakerLine,
                              r.args.stat>>
                 /\ r.args.player_id = playerProp.player_id
                 /\ r.args.projection = projection
                 /\ r.args.line = parseFloat(bookmakerLine)
                 /\ r.args.stat = selectedStat ]_vars

\* An analysis was requested and is in flight, after which the line was
\* edited and another category selected without a second request.
C8_Witness ==
    /\ nCalcReq = 1
    /\ \E r \in calcInflight :
          /\ r.args.stat # selectedStat
          /\ r.key[4] # bookmakerLine

\* C9: the Analyze button is enabled exactly when the entered line parses to
\* a number above 0 (so it is disabled for an empty, a non-numeric, a zero
\* and a negative entry), and getCalculatorAnalysis is never called for a
\* line that does not parse to a number above 0.
C9_AnalyzeNeedsPositiveLine ==
    /\ ~AnalyzeDisabled <=> GreaterThanZero(parseFloat(bookmakerLine))
    /\ \A r \in calcInflight : GreaterThanZero(r.args.line)
    /\ \A key \in DOMAIN calcCache : GreaterThanZero(parseFloat(key[4]))

\* The entered line is "-5": Analyze is disabled.
C9_Witness ==
    /\ isOpen
    /\ bookmakerLine = <<"-", "5">>
    /\ AnalyzeDisabled

----------------------------------------------------------------------------
(* Properties of the win probability bar (SpecWinProbability)              *)

\* C10 as stated: for every raw home win probability, below 0, above 100 and
\* missing included, the home value and the away complement displayed both
\* lie in [0, 100].
C10_BothWithinRange ==
    wpRendered.rendered
    => /\ wpRendered.home \in 0..1000
       /\ wpRendered.away \in 0..1000

\* C10 as amended: both displayed values are at least 0 for every raw value,
\* and both lie in [0, 100] exactly when the raw value is missing or itself
\* within [0, 100].
C10_FloorOnly ==
    wpRendered.rendered
    => /\ wpRendered.home >= 0
       /\ wpRendered.away >= 0
       /\ (wpRendered.home <= 1000 /\ wpRendered.away <= 1000)
             <=> (~winProbabilityHome.defined
                    \/ winProbabilityHome.v \in 0..1000)

\* The bar is rendered for a raw value above 100, shown as is on the home
\* side.
C10_Witness ==
    /\ wpRendered.rendered
    /\ winProbabilityHome.defined
    /\ winProbabilityHome.v > 1000
    /\ wpRendered.home = winProbabilityHome.v
    /\ wpRendered.away = 0

\* C11 as stated: for every raw home win probability within [0, 100], at
\* one-decimal resolution and ending in .5 included, the rounded home
\* percentage text and the rounded away percentage text sum to exactly 100.
C11_RoundedTextsSumTo100 ==
    (/\ wpRendered.rendered
     /\ winProbabilityHome.defined
     /\ winProbabilityHome.v \in 0..1000)
    => \E h \in 0..100 :
          /\ wpRendered.homeText = ToString(h) \o "%"
          /\ wpRendered.awayText = ToString(100 - h) \o "%"

\* C12 as stated: when the raw home win probability is negative, the home
\* value and the away complement displayed are both 0.
C12_NegativeBothZero ==
    (/\ wpRendered.rendered
     /\ winProbabilityHome.defined
     /\ winProbabilityHome.v < 0)
    => /\ wpRendered.home = 0
       /\ wpRendered.away = 0

\* C12 as amended: when the raw home win probability p is negative, the home
\* value displayed is 0 and the away complement displayed is 100 - p, which
\* is above 100.
C12_NegativeHomeZeroAwayAbove ==
    (/\ wpRendered.rendered
     /\ winProbabilityHome.defined
     /\ winProbabilityHome.v < 0)
    => /\ wpRendered.home = 0
       /\ wpRendered.away = 1000 - winProbabilityHome.v
       /\ wpRendered.away > 1000

\* The bar is rendered for the raw value -5.0: home 0, away 105.0, and the
\* percentages "0%" and "105%".
C12_Witness ==
    /\ wpRendered.rendered
    /\ winProbabilityHome = WinProbability(0 - 50)
    /\ wpRendered.home = 0
    /\ wpRendered.away = 1050
    /\ wpRendered.homeText = "0%"
    /\ wpRendered.awayText = "105%"

----------------------------------------------------------------------------
(* Properties of the confidence badge (SpecConfidence)                     *)

\* C13 as stated: changing the letter case of any character of a confidence
\* label does not change the bucket getConfidenceBadgeColor returns.
C13_CaseInsensitive ==
    [][(confidenceBadge # NoBadge /\ level' # level)
          => confidenceBadge' = confidenceBadge]_vars

HasTight   == ~Falsy(level) /\ includesAny(toLowerCase(level.text), TightWords)
HasSolid   == ~Falsy(level) /\ includesAny(toLowerCase(level.text), SolidWords)
HasBlowout ==
    ~Falsy(level) /\ includesAny(toLowerCase(level.text), BlowoutWords)

\* C14 as stated: every label falls in one of four buckets: amber when it
\* contains a tight/contested keyword, green when it contains a solid keyword,
\* red when it contains the blowout keyword, and blue otherwise, an empty or
\* missing label included.
C14_FourBuckets ==
    confidenceBadge # NoBadge
    => /\ confidenceBadge \in {Amber, Emerald, Red, Blue}
       /\ HasTight => confidenceBadge = Amber
       /\ HasSolid => confidenceBadge = Emerald
       /\ HasBlowout => confidenceBadge = Red
       /\ ~(HasTight \/ HasSolid \/ HasBlowout) => confidenceBadge = Blue

\* C14 as amended: every label falls in exactly one of five buckets, the
\* first that applies: gray when the label is missing or empty, amber when it
\* contains a tight/contested keyword, green when it contains a solid
\* keyword, red when it contains the blowout keyword, blue otherwise.
C14_FiveBucketsFirstMatch ==
    confidenceBadge # NoBadge
    => /\ confidenceBadge \in {Gray, Amber, Emerald, Red, Blue}
       /\ confidenceBadge = Gray <=> Falsy(level)
       /\ confidenceBadge = Amber <=> HasTight
       /\ confidenceBadge = Emerald <=> (HasSolid /\ ~HasTight)
       /\ confidenceBadge = Red <=> (HasBlowout /\ ~HasSolid /\ ~HasTight)

\* The badge is rendered amber for a label with a solid and a tight keyword.
C14_Witness ==
    /\ confidenceBadge = Amber
    /\ HasSolid
    /\ HasTight

----------------------------------------------------------------------------
(* Properties of the recommendation panel (SpecRecommendation)             *)

\* C15: a colour code of green, red, amber or yellow, in any letter case,
\* alone decides the styling (emerald, red, amber, amber), whatever the
\* advice text: with OVER, with UNDER, with both or with neither.
C15_ColorCodeDecides ==
    (recommendationColor # NoPanel /\ colorCode.defined)
    => LET lower == toLowerCase(colorCode.text)
       IN /\ lower = Green => recommendationColor = PanelEmerald
          /\ lower = RedCode => recommendationColor = PanelRed
          /\ lower = AmberCode => recommendationColor = PanelAmber
          /\ lower = Yellow => recommendationColor = PanelAmber

\* The panel is emerald for the code "GREEN" with the advice "UNDER".
C15_Witness ==
    /\ recommendationColor = PanelEmerald
    /\ colorCode = Text(<<"G", "R", "E", "E", "N">>)
    /\ advice = Text(UNDER)

\* C16 as stated: without a colour code, every advice containing "OVER" gets
\* the emerald styling, every advice containing "UNDER" the red styling, and
\* an advice containing neither, or no advice, the neutral/amber default.
C16_AdviceInference ==
    (recommendationColor # NoPanel /\ Falsy(colorCode))
    => LET upper == toUpperCase(advice.text)
       IN /\ (~Falsy(advice) /\ includes(upper, OVER))
                => recommendationColor = PanelEmerald
          /\ (~Falsy(advice) /\ includes(upper, UNDER))
                => recommendationColor = PanelRed
          /\ (Falsy(advice)
                \/ (~includes(upper, OVER) /\ ~includes(upper, UNDER)))
                => recommendationColor \in {PanelAmber, PanelSlate}

\* C16 as amended: without a colour code the styling is inferred from the
\* advice put in capitals, the first test that applies: slate when the advice
\* is missing or empty, emerald when it contains "OVER" (also when it contains
\* "UNDER" too), red when it contains "UNDER" and not "OVER", amber otherwise.
C16_AdviceFirstMatch ==
    (recommendationColor # NoPanel /\ Falsy(colorCode))
    => IF Falsy(advice) THEN recommendationColor = PanelSlate
       ELSE LET upper == toUpperCase(advice.text)
            IN /\ includes(upper, OVER) => recommendationColor = PanelEmerald
               /\ (includes(upper, UNDER) /\ ~includes(upper, OVER))
                     => recommendationColor = PanelRed
               /\ (~includes(upper, UNDER) /\ ~includes(upper, OVER))
                     => recommendationColor = PanelAmber

\* The panel is emerald for the advice "OVER/UNDER" without a colour code.
C16_Witness ==
    /\ recommendationColor = PanelEmerald
    /\ Falsy(colorCode)
    /\ ~Falsy(advice)
    /\ includes(advice.text, OVER)
    /\ includes(advice.text, UNDER)

----------------------------------------------------------------------------
(* Properties of the history tabs (SpecHistory)                            *)

NoH2H == "No head-to-head history"

\* C17: once the history fetch is no longer loading, the head-to-head tab
\* shows stats exactly when head-to-head data is present with GP > 0; with
\* GP = 0, without head-to-head data, or after a failed fetch that left no
\* data, it shows the placeholder, whatever the other head-to-head fields and
\* whatever the recent-form tab shows.
C17_H2HNeedsGames ==
    (isOpen /\ ~historyLoading)
    => /\ H2HTab \in {"stats", NoH2H}
       /\ H2HTab = "stats"
             <=> (/\ historyData.defined
                  /\ historyData.h2h_avg.defined
                  /\ historyData.h2h_avg.GP > 0)
       /\ (historyError /\ ~historyData.defined) => H2HTab = NoH2H

\* The history has arrived with head-to-head points but no head-to-head game:
\* the head-to-head tab shows the placeholder, the recent-form tab its stats.
C17_Witness ==
    /\ isOpen
    /\ ~historyLoading
    /\ historyData.h2h_avg = Avg(0, 250)
    /\ H2HTab = NoH2H
    /\ RecentTab = "stats"

----------------------------------------------------------------------------
(* Properties of the modal across games (SpecLifecycle, SpecGames)         *)

LocalStateInitial ==
    /\ homeMissingPlayers = << >>
    /\ awayMissingPlayers = << >>
    /\ homeSearchQuery = << >>
    /\ awaySearchQuery = << >>
    /\ ~homePopoverOpen
    /\ ~awayPopoverOpen

\* C18 as stated: whenever the modal is reopened, or the game changes while
\* the component persists, the absence lists, the search texts and the
\* popover flags are back at their initial values before the prediction for
\* the new game is requested.
C18_NoLeakAcrossSubjects ==
    [][(/\ open'
        /\ ~open \/ game' # game
        /\ nReq' > nReq)
          => /\ LocalStateInitial'
             /\ \A r \in predInflight' \ predInflight :
                   r.args.homeIds = << >> /\ r.args.awayIds = << >>]_vars

\* C19: the failure set only grows; an id recorded in it shows the text
\* fallback in every later render and its image is not attempted again; a
\* failure recorded for one side leaves the logo of the other side as it was.
C19_FailureSetOnlyGrows ==
    [][/\ failedLogos \subseteq failedLogos'
       /\ LogoImages' \cap failedLogos = {}
       /\ HomeLogoId(game') \in failedLogos => HomeLogo' = "text"
       /\ AwayLogoId(game') \in failedLogos => AwayLogo' = "text"
       /\ \A id \in failedLogos' \ failedLogos :
             /\ failedLogos' = failedLogos \cup {id}
             /\ id = HomeLogoId(game) => AwayLogo' = AwayLogo
             /\ id = AwayLogoId(game) => HomeLogo' = HomeLogo]_vars

\* The home logos of two games have failed; back at the first game its home
\* logo is the text fallback and its away logo still the image.
C19_Witness ==
    /\ {HomeLogoId(Game1), HomeLogoId(Game2)} \subseteq failedLogos
    /\ game = Game1
    /\ PredictionShown
    /\ HomeLogo = "text"
    /\ AwayLogo = "img"
    /\ LogoImages = {AwayLogoId(Game1)}

\* C20: getTeamRoster is called for a side only with the non-empty team code
\* resolved for it; without a game, or with a team name that resolves to no
\* code, no call is made for that side and its roster is the empty list.
C20_RosterFetchNeedsTeamCode ==
    /\ [](/\ "" \notin rosterRequests
          /\ homeTeamId = "" => homeRoster = << >>
          /\ awayTeamId = "" => awayRoster = << >>)
    /\ [][rosterRequests' \ rosterRequests
             \subseteq {HomeCode(game'), AwayCode(game')} \ {""}]_vars

\* The game has a home team with a code and an away team without: the home
\* roster has been fetched and has arrived, the away roster is empty.
C20_Witness ==
    /\ game = Game3
    /\ rosterRequests = {"LAL"}
    /\ homeRoster = getTeamRoster("LAL")
    /\ awayTeamId = ""
    /\ awayRoster = << >>


----------------------------------------------------------------------------
(* Properties of the body of the match modal (SpecDisplay)                 *)

\* C21: the body of the open match modal shows exactly one of the loading
\* indicator, the prediction content and "Data unavailable": the loading
\* indicator while the first fetch of the rendered query is running, the
\* content whenever the query has data, "Data unavailable" once a fetch has
\* failed and left the query without data and without a running fetch; and
\* an answer or a failure of predictMatch notifies the parent of nothing.
C21_ThreeDisplayStates ==
    /\ [](open =>
           LET e == EntryOf(predCache, currentKey) IN
           /\ MatchModalBody \in {"loading", "content", "unavailable"}
           /\ (e.data = NoData /\ e.active # 0) => MatchModalBody = "loading"
           /\ e.data # NoData => MatchModalBody = "content"
           /\ (e.data = NoData /\ e.active = 0 /\ e.error)
                 => MatchModalBody = "unavailable")
    /\ [][predInflight' \subseteq predInflight /\ predInflight' # predInflight
             => closeCalls' = closeCalls /\ open' = open /\ game' = game]_vars

\* A prediction is on display while the fetch of a Refresh click is running.
C21_Witness ==
    /\ open
    /\ prediction # NoData
    /\ EntryOf(predCache, currentKey).active # 0
    /\ MatchModalBody = "content"


----------------------------------------------------------------------------
(* Properties of the operations of the open modal (SpecFrame)              *)

\* the four inputs of the prediction query key
KeyInputs ==
    <<homeTeamId, awayTeamId, Ids(homeMissingPlayers),
      Ids(awayMissingPlayers)>>

\* C22: the prediction query key changes only when a team code or the id
\* list of a side changes; with both absence lists empty both id-join
\* components of the key are the empty string; and editing the search text,
\* opening or closing the popover, recording a logo failure, Refresh, adding
\* a player already in the list and removing an id not in the list leave the
\* key as it was.
C22_KeyDependsOnInputsOnly ==
    /\ []((homeMissingPlayers = << >> /\ awayMissingPlayers = << >>)
            => currentKey[4] = "" /\ currentKey[5] = "")
    /\ [][/\ KeyInputs' = KeyInputs => currentKey' = currentKey
          /\ \/ homeSearchQuery' # homeSearchQuery
                  /\ homeMissingPlayers' = homeMissingPlayers
             \/ homePopoverOpen' # homePopoverOpen
                  /\ homeMissingPlayers' = homeMissingPlayers
             \/ failedLogos' # failedLogos
             \/ Refresh
             \/ \E player \in PlayersOf(homeRoster) :
                   /\ HasId(homeMissingPlayers, player.id)
                   /\ addHomeMissingPlayer(player)
             \/ \E playerId \in PlayerIds :
                   /\ ~HasId(homeMissingPlayers, playerId)
                   /\ removeHomeMissingPlayer(playerId)
             => currentKey' = currentKey]_vars

\* A player is absent, the search text is not empty, the popover is open, a
\* logo has failed and Refresh has been clicked: the key has its home id
\* component and an empty away one.
C22_Witness ==
    /\ open
    /\ Len(homeMissingPlayers) = 1
    /\ homeSearchQuery # << >>
    /\ homePopoverOpen
    /\ failedLogos # {}
    /\ lastRefresh # NoRefresh
    /\ currentKey[4] # ""
    /\ currentKey[5] = ""

----------------------------------------------------------------------------
(* Order of the absence lists (SpecAbsence)                                *)

\* after is before with some entries left out, the others in their order
KeepsOrder(before, after) ==
    \E kept \in SUBSET (1..Len(before)) :
        after = SelectSeq(before, LAMBDA p :
                    \E i \in kept : before[i] = p)

\* a step from list before to list after is no change, an add at the end or
\* a removal that keeps the order of the others
OrderedStep(before, after) ==
    \/ after = before
    \/ /\ Len(after) = Len(before) + 1
       /\ SubSeq(after, 1, Len(before)) = before
       /\ ~HasId(before, after[Len(after)].id)
    \/ Len(after) < Len(before) /\ KeepsOrder(before, after)

----------------------------------------------------------------------------
(* The Close button (SpecFrame)                                            *)

\* C24: a click on Close calls onOpenChange(false) once and changes nothing
\* else: both absence lists, both search texts, both popover flags and the
\* logo failure set stay as they are, and no predictMatch or getTeamRoster
\* call is issued.
C24_CloseOnlyNotifies ==
    [][closeCalls' # closeCalls
         => /\ closeCalls' = closeCalls + 1
            /\ UNCHANGED <<homeMissingPlayers, awayMissingPlayers,
                           homeSearchQuery, awaySearchQuery,
                           homePopoverOpen, awayPopoverOpen, failedLogos>>
            /\ UNCHANGED <<nReq, predInflight, predCache, rosterRequests>>]_vars

\* Close has been clicked with an absence selected, a search text typed, the
\* popover open and a logo failed, all still in place.
C24_Witness ==
    /\ closeCalls = 1
    /\ open
    /\ homeMissingPlayers # << >>
    /\ homeSearchQuery # << >>
    /\ homePopoverOpen
    /\ failedLogos # {}

----------------------------------------------------------------------------
(* The roster search (SpecSearch)                                          *)

\* two characters are the same letter, whatever their case
SameLetter(a, b) ==
    \/ a = b
    \/ CaseChanged(<<a>>, 1) = <<b>>
    \/ CaseChanged(<<b>>, 1) = <<a>>

\* the name contains the text as a substring, letter case aside
ContainsIgnoringCase(name, text) ==
    \E i \in 0..(Len(name) - Len(text)) :
        \A k \in 1..Len(text) : SameLetter(name[i + k], text[k])

\* results is the sub-list of roster, in roster order, of the players whose
\* name contains the text
IsSearchResult(results, roster, text) ==
    /\ KeepsOrder(roster, results)
    /\ \A player \in PlayersOf(roster) :
          player \in PlayersOf(results)
             <=> ContainsIgnoringCase(player.full_name, text)
    /\ text = << >> => results = roster

\* C27: on each side the search result is the sub-list of the side's roster,
\* in roster order, of the players whose full name contains the search text
\* as a substring, letter case aside; with an empty search text it is the
\* whole roster.
C27_SearchResults ==
    /\ IsSearchResult(homePlayerSearchResults, homeRoster, homeSearchQuery)
    /\ IsSearchResult(awayPlayerSearchResults, awayRoster, awaySearchQuery)

\* A capital "B" finds "Bo" but not "Al" in the home roster, and "ab" in the
\* away roster.
C27_Witness ==
    /\ Len(homeRoster) = 2
    /\ homeSearchQuery = <<"B">>
    /\ homePlayerSearchResults = <<getTeamRoster("LAL")[2]>>
    /\ Len(awayRoster) = 1
    /\ awaySearchQuery = <<"B">>
    /\ awayPlayerSearchResults = awayRoster

----------------------------------------------------------------------------
(* The two sides of the absence selection (SpecSides)                      *)

HomeSide == <<homeMissingPlayers, homeSearchQuery, homePopoverOpen>>
AwaySide == <<awayMissingPlayers, awaySearchQuery, awayPopoverOpen>>

\* C25: an add, a remove, a search edit or a popover toggle on one side
\* leaves the other side's absence list, search text, popover flag and
\* search results as they were: no step changes the state of one side and
\* anything of the other.
C25_SidesIndependent ==
    [][/\ HomeSide' # HomeSide
            => /\ AwaySide' = AwaySide
               /\ awayPlayerSearchResults' = awayPlayerSearchResults
       /\ AwaySide' # AwaySide
            => /\ HomeSide' = HomeSide
               /\ homePlayerSearchResults' = homePlayerSearchResults]_vars

\* A home player has been added while the away side has a search text that
\* narrows nothing away and its popover open.
C25_Witness ==
    /\ Len(homeMissingPlayers) = 1
    /\ homeSearchQuery = << >>
    /\ ~homePopoverOpen
    /\ awaySearchQuery = <<"b">>
    /\ awayPopoverOpen
    /\ awayPlayerSearchResults = getTeamRoster("BOS")

----------------------------------------------------------------------------
(* The Difference cell (SpecDifference)                                    *)

\* the text after an optional "+"
Unsigned(text) ==
    IF text # << >> /\ Head(text) = "+" THEN Tail(text) ELSE text

\* C26: with a target line entered the Difference cell shows projection
\* minus the parsed line at one decimal: the number shown has one digit
\* after the point and is within half a tenth of the difference, it is
\* negative only for a negative difference, and the text starts with "+"
\* exactly when the difference is greater than zero.
C26_DifferenceShown ==
    bookmakerLine # << >> =>
        LET shown == parseFloat(Unsigned(DifferenceText))
            d     == Difference
            scale == Pow10(d.e - 1)
        IN  /\ ~d.nan /\ d.e >= 1
            /\ ~shown.nan /\ shown.e = 1
            /\ toFixed1(shown) = Unsigned(DifferenceText)
            /\ 2 * (shown.m * scale - d.m) <= scale
            /\ 2 * (d.m - shown.m * scale) <= scale
            /\ (DifferenceText[1] = "+") <=> d.m > 0
            /\ DifferenceText[1] = "-" => d.m < 0

\* The example of the claim: line 22.5 under a projection of 24.0 points
\* shows "+1.5".
C26_Witness ==
    /\ selectedStat = "PTS"
    /\ bookmakerLine = <<"2", "2", ".", "5">>
    /\ DifferenceText = <<"+", "1", ".", "5">>


----------------------------------------------------------------------------
(* Two events on one render (SpecBatch)                                    *)

\* C28: no absence update is lost.  When two home events are handled before
\* the component renders again, two adds of distinct players who are not in
\* the list leave both in it, and an add of a player who is not in the list
\* followed by a remove of another player leaves the added player in and the
\* removed player out.
C28_NoUpdateLost ==
    [][\A e1, e2 \in HomeEvents :
          /\ e1.player.id # e2.player.id
          /\ e1.kind = "add"
          /\ ~HasId(homeMissingPlayers, e1.player.id)
          /\ e2.kind = "add" => ~HasId(homeMissingPlayers, e2.player.id)
          /\ HomeEventsOnOneRender(e1, e2)
          => /\ HasId(homeMissingPlayers', e1.player.id)
             /\ HasId(homeMissingPlayers', e2.player.id) <=> e2.kind = "add"]_vars

----------------------------------------------------------------------------
(* The arguments of predictMatch (SpecDisplay)                             *)

\* C29: every predictMatch call, whether the query layer starts it or a
\* click on Refresh does, is made with the modal open and with a non-empty
\* home and away team code.
C29_NoUnresolvedFetch ==
    [][\A r \in predInflight' \ predInflight :
          /\ open'
          /\ r.args.homeTeamId # ""
          /\ r.args.awayTeamId # ""]_vars

----------------------------------------------------------------------------
(* The result shown by the projection analyzer (SpecPlayer)                *)

\* C30: whenever the result panel is visible, the result in it was fetched
\* for the player, the projection, the target line and the stat category of
\* the current render.
C30_ResultMatchesInputs ==
    PanelVisible =>
        /\ calculatorResult.args.player_id = playerProp.player_id
        /\ calculatorResult.args.projection = projection
        /\ calculatorResult.args.line = parseFloat(bookmakerLine)
        /\ calculatorResult.args.stat = selectedStat

\* Two lines have been analyzed; the panel shows the result of the first
\* request again after the line was edited back to it.
C30_Witness ==
    /\ PanelVisible
    /\ calculatorResult.req = 1
    /\ \E key \in DOMAIN calcCache :
          /\ key # currentCalcKey
          /\ calcCache[key].data.req = 2
====
